---- MODULE Spec2Model ----
(***************************************************************************)
(* German language learning feedback (client/german_llm): the grammar      *)
(* checker wrapper (LanguageToolClient), the text generator wrapper        *)
(* (LeoLMClient) and the analyzer that composes them                       *)
(* (GermanLanguageAnalyzer).                                               *)
(*                                                                         *)
(* A text is a sequence of one-character strings. Offsets and lengths are  *)
(* naturals, as the checker produces them; Python's slices s[:n] and s[n:] *)
(* clamp n to len(s), which Take and Drop reproduce.                       *)
(***************************************************************************)
EXTENDS Integers, Sequences, FiniteSets, TLC

VARIABLES
    text,        \* _apply_corrections: the text argument
    matches,     \* _apply_corrections: the matches argument (checker order)
    corrected,   \* _apply_corrections: the returned string
    outcome,     \* "pending" before the call, then "returned" or "raised"
    pc,          \* "call" before _apply_corrections ran, "done" after
    lt_tool,     \* LanguageToolClient.tool: 0 is None, else the checker handle held
    lt_init,     \* LanguageToolClient._is_initialized
    acquired,    \* number of checker handles LanguageTool(...) has returned so far
    closes,      \* closes[h]: number of close() calls made on checker handle h
    leo_tok,     \* LeoLMClient.tokenizer: "none", "loaded", or "deleted" (del self.tokenizer)
    leo_model,   \* LeoLMClient.model
    leo_pipe,    \* LeoLMClient.pipeline
    leo_init,    \* LeoLMClient._is_initialized
    an_init,     \* GermanLanguageAnalyzer._is_initialized
    has_leolm,   \* config.leolm_config is not None (then leolm_client is a LeoLMClient)
    last,        \* the last operation: component, name, how it ended, external calls made
    helper,      \* the helper method called on its own: "quality", "explanations", "none"
    h_arg,       \* its argument
    h_ret,       \* its return value
    h_pc,        \* "idle", "call" (called), "done" (returned)
    cli_analyzer, \* cli.py: german_llm.analyzer is not None
    tasks        \* the coroutines in flight on one analyzer, each with its locals

assembleVars == <<text, matches, corrected, outcome, pc>>

sessionVars ==
    <<lt_tool, lt_init, acquired, closes, leo_tok, leo_model, leo_pipe,
      leo_init, an_init, has_leolm, last>>

helperVars == <<helper, h_arg, h_ret, h_pc>>

cliVars == <<cli_analyzer>>

taskVars == <<tasks>>

vars == <<assembleVars, sessionVars, helperVars, cliVars, taskVars>>

----------------------------------------------------------------------------
(* Bounds of the inputs explored.                                          *)

MaxTextLen == 4
MaxSpanLen == 2
MaxMatches == 2
MaxHandles == 2
MaxChecked == 2
MaxTopics  == 2
MaxIssues == 7
MaxCritical == 4

Min(a, b) == IF a < b THEN a ELSE b

\* Texts of pairwise distinct characters: the assembler never inspects a
\* character, so a lost, duplicated or displaced one shows in the result.
Letters == <<"a", "b", "c", "d", "e", "f", "g", "h">>

Texts == { SubSeq(Letters, 1, n) : n \in 0..Min(MaxTextLen, Len(Letters)) }

\* Suggestion lists of a match: none, the empty string, a one-character
\* replacement, and a two-character first suggestion followed by a second.
SuggestionLists ==
    { <<>>, << <<>> >>, << <<"x">> >>, << <<"y", "z">>, <<"w">> >> }

Categories == {"GRAMMAR"}

RuleIds == {"AGREEMENT_ERRORS"}

\* GrammarMatch, reduced to the fields the assembler and the bucketing read.
Spans ==
    [ offset : 0..MaxTextLen, length : 1..MaxSpanLen, rule_id : RuleIds,
      category : Categories, suggestions : SuggestionLists ]

MatchLists == UNION { [1..n -> Spans] : n \in 0..MaxMatches }

\* The scenario of the specification's testable properties.
ScenarioText ==
    << "D","e","r"," ","M","a","n","n"," ","g","e","h","e","n"," ",
       "z","u"," ","d","e","r"," ","H","a","u","s","." >>

ScenarioCorrected ==
    << "D","e","r"," ","M","a","n","n"," ","g","e","h","t"," ",
       "z","u"," ","d","e","m"," ","H","a","u","s","." >>

\* What the code returns for the offsets the scenario states.
ScenarioAsStated ==
    << "D","e","r"," ","M","a","n","n","g","e","h","t","n"," ",
       "z","d","e","m","e","r"," ","H","a","u","s","." >>

Geht == << <<"g","e","h","t">> >>
Dem  == << <<"d","e","m">> >>

ScenarioSpan(o, l, c, r, s) ==
    [offset |-> o, length |-> l, category |-> c, rule_id |-> r, suggestions |-> s]

StatedGrammar == ScenarioSpan(8,  5, "GRAMMAR", "AGREEMENT_ERRORS", Geht)
StatedCase    == ScenarioSpan(16, 3, "CASE",    "CASE_AGREEMENT",   Dem)
WordGrammar   == ScenarioSpan(9,  5, "GRAMMAR", "AGREEMENT_ERRORS", Geht)
WordCase      == ScenarioSpan(18, 3, "CASE",    "CASE_AGREEMENT",   Dem)

ScenarioSpans == {StatedGrammar, StatedCase, WordGrammar, WordCase}

ScenarioLists == UNION { [1..n -> ScenarioSpans] : n \in 1..2 }

----------------------------------------------------------------------------
(* languagetool_client.py: _apply_corrections                              *)

\* s[:n]
Take(s, n) == SubSeq(s, 1, Min(n, Len(s)))

\* s[n:]
Drop(s, n) == SubSeq(s, Min(n, Len(s)) + 1, Len(s))

\* Insert m into a list sorted by offset descending, behind every element
\* whose offset is not smaller: equal offsets keep their input order.
RECURSIVE InsertDesc(_, _)
InsertDesc(sorted, m) ==
    IF sorted = <<>> THEN <<m>>
    ELSE IF Head(sorted).offset >= m.offset
         THEN <<Head(sorted)>> \o InsertDesc(Tail(sorted), m)
         ELSE <<m>> \o sorted

RECURSIVE SortedDescFrom(_, _)
SortedDescFrom(acc, ms) ==
    IF ms = <<>> THEN acc
    ELSE SortedDescFrom(InsertDesc(acc, Head(ms)), Tail(ms))

\* The input order kept: a missing sort.
SortedDesc_Unsorted(ms) == ms

\* sorted(matches, key=lambda m: m.offset, reverse=True); the sort is stable.
SortedDesc(ms) == SortedDescFrom(<<>>, ms)

\* The test applied to the first suggestion rather than to the list.
HasSuggestion_FirstNonEmpty(m) ==
    m.suggestions # <<>> /\ m.suggestions[1] # <<>>

\* if match.suggestions: a non-empty list, whatever its first element.
HasSuggestion(m) == m.suggestions # <<>>

\* The tail taken from the offset instead of from offset + length.
Splice_KeepCovered(s, m) ==
    Take(s, m.offset) \o m.suggestions[1] \o Drop(s, m.offset)

\* corrected[:start] + match.suggestions[0] + corrected[end:]
Splice(s, m) ==
    Take(s, m.offset) \o m.suggestions[1] \o Drop(s, m.offset + m.length)

RECURSIVE ApplySorted(_, _)
ApplySorted(s, sorted) ==
    IF sorted = <<>> THEN s
    ELSE ApplySorted(IF HasSuggestion(Head(sorted)) THEN Splice(s, Head(sorted)) ELSE s,
                     Tail(sorted))

\* The early return of the empty list lost: the accumulator starts empty.
ApplyCorrections_EmptyStart(t, ms) == ApplySorted(<<>>, SortedDesc(ms))

ApplyCorrections(t, ms) ==
    IF ms = <<>> THEN t ELSE ApplySorted(t, SortedDesc(ms))

----------------------------------------------------------------------------
(* The session state of the three components and what one operation leaves *)
(* behind: its component, its name, how it ended and, in order, the calls  *)
(* it made to the external libraries (LanguageTool, transformers).         *)

\* One call to an external library. call: "LanguageTool" (constructor),
\* "check", "close", "tokenizer", "model", "pipeline" (the three loads of
\* LeoLMClient.initialize) or "generate" (the pipeline run of one
\* GermanPrompt, with its task_type and target_grammar/context).
Ev(call, task, arg, ok) == [call |-> call, task |-> task, arg |-> arg, ok |-> ok]

\* What an operation that raised, or that returns None, gives its caller.
Nothing == [ kind |-> "none" ]

\* issues and fixed: total_errors and corrected_text of the GrammarAnalysis
\* a checking operation obtained (0 and the empty text when it obtained none);
\* seen: its matches; out: the value the operation returned; args: the
\* arguments it was called with, where they are options.
Op(comp, op, result, ext, issues, fixed) ==
    [ comp |-> comp, op |-> op, result |-> result, ext |-> ext,
      issues |-> issues, fixed |-> fixed, seen |-> <<>>, out |-> Nothing,
      args |-> <<>> ]

\* The operation o, called with the arguments as.
With(o, as) == [o EXCEPT !.args = as]

\* The operation o, having obtained the matches ms and returning v.
Returning(o, ms, v) == [o EXCEPT !.seen = ms, !.out = v]

\* The operation o returns v when it has not raised.
Gives(o, v) == IF o.result = "returned" THEN [o EXCEPT !.out = v] ELSE o

Plain(comp, op, result, ext) == Op(comp, op, result, ext, 0, <<>>)

NoOp == Plain("none", "none", "none", <<>>)

AssembleIdle ==
    /\ text = <<>> /\ matches = <<>> /\ corrected = <<>>
    /\ outcome = "pending" /\ pc = "idle"

HelperIdle ==
    /\ helper = "none" /\ h_arg = <<>> /\ h_ret = <<>> /\ h_pc = "idle"

\* GermanLLMCommand.__init__: no analyzer yet.
CliIdle == cli_analyzer = FALSE

\* No coroutine in flight.
TasksIdle == tasks = <<>>

\* __init__ of the three classes.
SessionInit ==
    /\ lt_tool = 0 /\ lt_init = FALSE
    /\ acquired = 0 /\ closes = [h \in 1..MaxHandles |-> 0]
    /\ leo_tok = "none" /\ leo_model = "none" /\ leo_pipe = "none"
    /\ leo_init = FALSE
    /\ an_init = FALSE
    /\ last = NoOp

----------------------------------------------------------------------------
(* languagetool_client.py: lifecycle                                       *)

\* Where initialize() leaves its try block: "ok" at return True, "ctor" when
\* LanguageTool(**kwargs) raises. (The rule and category assignments after
\* it build sets from the configured lists and do not raise.)
LTHow == {"ok", "ctor"}

\* The flag set although the constructor raised.
LTAfterInit_FlagOnFailure(how) ==
    [ tool |-> IF how = "ctor" THEN lt_tool ELSE acquired + 1,
      acquired |-> IF how = "ctor" THEN acquired ELSE acquired + 1,
      init |-> TRUE ]

\* LanguageToolClient.initialize: self.tool is assigned the new handle (the
\* old one, if any, is dropped without close()), the flag is set last.
LTAfterInit(how) ==
    [ tool |-> IF how = "ctor" THEN lt_tool ELSE acquired + 1,
      acquired |-> IF how = "ctor" THEN acquired ELSE acquired + 1,
      init |-> IF how = "ok" THEN TRUE ELSE lt_init ]

LTInitExt(how) == << Ev("LanguageTool", "", "", how # "ctor") >>

LTCanInit(how) == how = "ctor" \/ acquired < MaxHandles

\* LanguageToolClient._ensure_initialized passes.
LTEnsureInitialized == ~(~lt_init \/ lt_tool = 0)

\* LanguageToolClient.cleanup
LTAfterCleanup ==
    [ closes |-> IF lt_tool # 0 THEN [closes EXCEPT ![lt_tool] = @ + 1] ELSE closes,
      tool |-> 0,
      init |-> FALSE ]

LTCleanupExt == IF lt_tool # 0 THEN << Ev("close", "", "", TRUE) >> ELSE <<>>

----------------------------------------------------------------------------
(* leolm_client.py: lifecycle                                              *)

\* Where initialize() leaves its try block: the load that raises, or "ok".
LeoHow == {"ok", "tokenizer", "model", "pipeline"}

\* The flag set before the pipeline is built.
LeoAfterInit_FlagEarly(how) ==
    [ tok   |-> IF how = "tokenizer" THEN leo_tok ELSE "loaded",
      model |-> IF how \in {"tokenizer", "model"} THEN leo_model ELSE "loaded",
      pipe  |-> IF how = "ok" THEN "loaded" ELSE leo_pipe,
      init  |-> IF how \in {"ok", "pipeline"} THEN TRUE ELSE leo_init ]

\* LeoLMClient.initialize: tokenizer, model and pipeline are assigned in
\* this order, each as soon as its load returns; the flag is set last.
LeoAfterInit(how) ==
    [ tok   |-> IF how = "tokenizer" THEN leo_tok ELSE "loaded",
      model |-> IF how \in {"tokenizer", "model"} THEN leo_model ELSE "loaded",
      pipe  |-> IF how = "ok" THEN "loaded" ELSE leo_pipe,
      init  |-> IF how = "ok" THEN TRUE ELSE leo_init ]

LeoInitExt(how) ==
    << Ev("tokenizer", "", "", how # "tokenizer") >>
    \o (IF how = "tokenizer" THEN <<>> ELSE << Ev("model", "", "", how # "model") >>)
    \o (IF how \in {"tokenizer", "model"} THEN <<>>
        ELSE << Ev("pipeline", "", "", how # "pipeline") >>)

\* The model attribute tested in place of the flag.
LeoEnsureInitialized_ModelLoaded == leo_model = "loaded"

\* LeoLMClient._ensure_initialized passes.
LeoEnsureInitialized == leo_init

\* `if self.x: del self.x`: None stays, a loaded object is deleted.
Del(attr) == IF attr = "loaded" THEN "deleted" ELSE attr

\* LeoLMClient.cleanup: reading an attribute that an earlier cleanup deleted
\* raises AttributeError, and the statements before it have taken effect.
LeoAfterCleanup ==
    IF leo_model = "deleted"
    THEN [ model |-> leo_model, tok |-> leo_tok, pipe |-> leo_pipe,
           init |-> leo_init, raised |-> TRUE ]
    ELSE IF leo_tok = "deleted"
    THEN [ model |-> Del(leo_model), tok |-> leo_tok, pipe |-> leo_pipe,
           init |-> leo_init, raised |-> TRUE ]
    ELSE IF leo_pipe = "deleted"
    THEN [ model |-> Del(leo_model), tok |-> Del(leo_tok), pipe |-> leo_pipe,
           init |-> leo_init, raised |-> TRUE ]
    ELSE [ model |-> Del(leo_model), tok |-> Del(leo_tok), pipe |-> Del(leo_pipe),
           init |-> FALSE, raised |-> FALSE ]

\* GermanLanguageAnalyzer._ensure_initialized passes.
AnEnsureInitialized == an_init

----------------------------------------------------------------------------
(* Inputs of the feedback operations.                                      *)

CheckedText == <<"a", "b", "c", "d">>

GrammarSpan ==
    [ offset |-> 0, length |-> 1, category |-> "GRAMMAR",
      rule_id |-> "AGREEMENT_ERRORS", suggestions |-> << <<"x">> >> ]

\* A spelling match without rule id and without replacement.
BareSpan ==
    [ offset |-> 1, length |-> 1, category |-> "TYPOS",
      rule_id |-> "", suggestions |-> <<>> ]

StyleSpan ==
    [ offset |-> 2, length |-> 1, category |-> "STYLE",
      rule_id |-> "STYLE_RULE", suggestions |-> << <<"y", "z">>, <<"w">> >> ]

PunctuationSpan ==
    [ offset |-> 3, length |-> 1, category |-> "PUNCTUATION",
      rule_id |-> "COMMA_COMPOUND_SENTENCE", suggestions |-> << <<>> >> ]

CheckerSpans == {GrammarSpan, BareSpan, StyleSpan, PunctuationSpan}

\* What tool.check(text) may return.
CheckerOutputs == UNION { [1..n -> CheckerSpans] : n \in 0..MaxChecked }

RedundancySpan ==
    [ offset |-> 2, length |-> 1, category |-> "REDUNDANCY",
      rule_id |-> "REDUNDANT_WORD", suggestions |-> << <<"v">> >> ]

\* A match of a category that no table of the client names.
UnknownSpan ==
    [ offset |-> 3, length |-> 1, category |-> "SEMANTICS",
      rule_id |-> "SEMANTIC_RULE", suggestions |-> <<>> ]

\* What tool.check(text) may return to analyze_learning_text: matches of
\* every category the buckets name, and of others.
LearningOutputs ==
    UNION { [1..n -> CheckerSpans \cup {RedundancySpan, UnknownSpan}] : n \in 0..MaxChecked }

\* focus_categories of check_text: None, or a list of categories.
FocusChoices == { <<>>, <<"GRAMMAR">> }

\* The inputs an operation can read: tool.check(text) is reached only behind
\* the guards and its return value exists only when it does not raise; the
\* outcome of a generation run exists only when the pipeline is run.
Only(reached, inputs, unread) == IF reached THEN inputs ELSE {unread}

Topics == {"Dativ", "Perfekt"}

TopicLists == UNION { [1..n -> Topics] : n \in 0..MaxTopics }

----------------------------------------------------------------------------
(* languagetool_client.py: check_text and analyze_learning_text            *)

MaxSuggestions == 5

InSeq(x, s) == \E i \in 1..Len(s) : s[i] = x

\* The loop of check_text: matches outside a non-empty focus list are
\* skipped, the others become GrammarMatch objects with at most five
\* suggestions.
RECURSIVE Convert(_, _)
Convert(raw, focus) ==
    IF raw = <<>> THEN <<>>
    ELSE IF focus # <<>> /\ ~InSeq(Head(raw).category, focus)
         THEN Convert(Tail(raw), focus)
         ELSE << [Head(raw) EXCEPT !.suggestions = Take(@, MaxSuggestions)] >>
              \o Convert(Tail(raw), focus)

\* The keys of categories_found, in insertion order.
RECURSIVE KeysFrom(_, _)
KeysFrom(seen, ms) ==
    IF ms = <<>> THEN seen
    ELSE KeysFrom(IF InSeq(Head(ms).category, seen) THEN seen
                  ELSE Append(seen, Head(ms).category),
                  Tail(ms))

CategoryKeys(ms) == KeysFrom(<<>>, ms)

IsCritical(m) == m.category \in {"TYPOS", "GRAMMAR"}

\* REDUNDANCY left out of the style categories.
IsStyle_StyleOnly(m) == ~IsCritical(m) /\ m.category \in {"STYLE"}

IsStyle(m)    == ~IsCritical(m) /\ m.category \in {"STYLE", "REDUNDANCY"}
IsLearning(m) == ~IsCritical(m) /\ ~IsStyle(m)

CriticalErrors(ms)        == SelectSeq(ms, IsCritical)
StyleSuggestions(ms)      == SelectSeq(ms, IsStyle)
LearningOpportunities(ms) == SelectSeq(ms, IsLearning)

\* self.grammar_categories.get(category, category)
CategoryGerman(c) ==
    CASE c = "TYPOS"             -> "Rechtschreibfehler"
      [] c = "GRAMMAR"           -> "Grammatikfehler"
      [] c = "PUNCTUATION"       -> "Zeichensetzung"
      [] c = "STYLE"             -> "Stil und Ausdruck"
      [] c = "CONFUSED_WORDS"    -> "Verwechselte Woerter"
      [] c = "REDUNDANCY"        -> "Redundanz"
      [] c = "GENDER_NEUTRALITY" -> "Geschlechtergerechte Sprache"
      [] c = "COLLOQUIALISMS"    -> "Umgangssprache"
      [] c = "REGIONALISMS"      -> "Regionalismen"
      [] OTHER                   -> c

\* categories_found[category] = categories_found.get(category, 0) + 1, for
\* the matches kept, one after the other; a dict keeps insertion order.
RECURSIVE CountsFrom(_, _)
CountsFrom(found, ms) ==
    IF ms = <<>> THEN found
    ELSE LET c  == Head(ms).category
             at == { i \in 1..Len(found) : found[i].category = c }
         IN  CountsFrom(IF at = {}
                        THEN Append(found, [ category |-> c, count |-> 1 ])
                        ELSE [ i \in 1..Len(found) |->
                                 IF i \in at THEN [found[i] EXCEPT !.count = @ + 1]
                                 ELSE found[i] ],
                        Tail(ms))

CategoriesFound(ms) == CountsFrom(<<>>, ms)

\* sum(len(m.suggestions) for m in grammar_matches)
RECURSIVE SuggestionsCount(_)
SuggestionsCount(ms) ==
    IF ms = <<>> THEN 0 ELSE Len(Head(ms).suggestions) + SuggestionsCount(Tail(ms))

\* The GrammarAnalysis check_text returns.
GrammarAnalysis(ms, fixed) ==
    [ kind |-> "grammar",
      text |-> CheckedText,
      matches |-> ms,
      total_errors |-> Len(ms),
      categories_found |-> CategoriesFound(ms),
      suggestions_count |-> SuggestionsCount(ms),
      corrected_text |-> fixed ]

\* _apply_corrections sorting the list it is given (matches.sort) instead
\* of a copy of it.
CheckText_SortsInPlace(raises, raw, focus) ==
    IF ~LTEnsureInitialized
    THEN [ result |-> "NotInitialized", ext |-> <<>>, matches |-> <<>>, fixed |-> <<>> ]
    ELSE IF raises
    THEN [ result |-> "CheckerError", ext |-> << Ev("check", "", "", FALSE) >>,
           matches |-> <<>>, fixed |-> <<>> ]
    ELSE LET ms == Convert(raw, focus)
         IN  [ result |-> "returned", ext |-> << Ev("check", "", "", TRUE) >>,
               matches |-> SortedDesc(ms), fixed |-> ApplyCorrections(CheckedText, ms) ]

\* The checker's exception answered with an analysis without matches.
CheckText_AbsorbsError(raises, raw, focus) ==
    IF ~LTEnsureInitialized
    THEN [ result |-> "NotInitialized", ext |-> <<>>, matches |-> <<>>, fixed |-> <<>> ]
    ELSE IF raises
    THEN [ result |-> "returned", ext |-> << Ev("check", "", "", FALSE) >>,
           matches |-> <<>>, fixed |-> CheckedText ]
    ELSE LET ms == Convert(raw, focus)
         IN  [ result |-> "returned", ext |-> << Ev("check", "", "", TRUE) >>,
               matches |-> ms, fixed |-> ApplyCorrections(CheckedText, ms) ]

\* check_text on this client: the guard, then tool.check(text), which
\* returns raw or raises; the except clause re-raises.
CheckText(raises, raw, focus) ==
    IF ~LTEnsureInitialized
    THEN [ result |-> "NotInitialized", ext |-> <<>>, matches |-> <<>>, fixed |-> <<>> ]
    ELSE IF raises
    THEN [ result |-> "CheckerError", ext |-> << Ev("check", "", "", FALSE) >>,
           matches |-> <<>>, fixed |-> <<>> ]
    ELSE LET ms == Convert(raw, focus)
         IN  [ result |-> "returned", ext |-> << Ev("check", "", "", TRUE) >>,
               matches |-> ms, fixed |-> ApplyCorrections(CheckedText, ms) ]

----------------------------------------------------------------------------
(* leolm_client.py and german_analyzer.py: generation requests             *)

Req(task, arg) == [task |-> task, arg |-> arg]

\* The requests after the first failed one not issued.
GenEvents_StopAtFailure(reqs, oks) ==
    LET failed == { j \in 1..Len(reqs) : ~oks[j] }
        n == IF failed = {} THEN Len(reqs)
             ELSE CHOOSE j \in failed : \A k \in failed : j <= k
    IN  [ i \in 1..n |-> Ev("generate", reqs[i].task, reqs[i].arg, oks[i]) ]

GenEvents(reqs, oks) ==
    [ i \in 1..Len(reqs) |-> Ev("generate", reqs[i].task, reqs[i].arg, oks[i]) ]

\* The requests a LeoLMClient method is called for, one after the other, on
\* the analyzer's leolm_client: None has no such method (AttributeError),
\* a client that is not initialized raises in its guard, and _generate_text
\* turns every failure of a run into a result with success False.
LeoRun(reqs, oks) ==
    IF reqs = <<>> THEN [ result |-> "returned", ext |-> <<>> ]
    ELSE IF ~has_leolm THEN [ result |-> "AttributeError", ext |-> <<>> ]
    ELSE IF ~LeoEnsureInitialized
    THEN [ result |-> "WrappedNotInitialized", ext |-> <<>> ]
    ELSE [ result |-> "returned", ext |-> GenEvents(reqs, oks) ]

\* _generate_error_explanations: the first three critical errors, those
\* with a rule id.
RECURSIVE ExplanationReqs(_)
ExplanationReqs(errors) ==
    IF errors = <<>> THEN <<>>
    ELSE (IF Head(errors).rule_id # ""
          THEN << Req("explanation", CategoryGerman(Head(errors).category)) >>
          ELSE <<>>)
         \o ExplanationReqs(Tail(errors))

\* _generate_grammar_examples: the first two categories found, those among
\* GRAMMAR and CASE_AGREEMENT.
RECURSIVE ExampleReqs(_)
ExampleReqs(cats) ==
    IF cats = <<>> THEN <<>>
    ELSE (IF Head(cats) \in {"GRAMMAR", "CASE_AGREEMENT"}
          THEN << Req("example", Head(cats)) >> ELSE <<>>)
         \o ExampleReqs(Tail(cats))

\* _generate_practice_exercises: the first two categories found.
ExerciseReqs(cats) == [ i \in 1..Len(cats) |-> Req("exercise", cats[i]) ]

\* The text analysis requested whether or not there are issues.
ComprehensiveReqs_Always(ms, explain, examples, exercises) ==
    << Req("correction", "Textanalyse") >>
    \o (IF explain THEN ExplanationReqs(Take(CriticalErrors(ms), 3)) ELSE <<>>)
    \o (IF examples THEN ExampleReqs(Take(CategoryKeys(ms), 2)) ELSE <<>>)
    \o (IF exercises THEN ExerciseReqs(Take(CategoryKeys(ms), 2)) ELSE <<>>)

\* analyze_text_comprehensive, once the grammar analysis is there.
ComprehensiveReqs(ms, explain, examples, exercises) ==
    IF Len(ms) > 0
    THEN << Req("correction", "Textanalyse") >>
         \o (IF explain THEN ExplanationReqs(Take(CriticalErrors(ms), 3)) ELSE <<>>)
         \o (IF examples THEN ExampleReqs(Take(CategoryKeys(ms), 2)) ELSE <<>>)
         \o (IF exercises THEN ExerciseReqs(Take(CategoryKeys(ms), 2)) ELSE <<>>)
    ELSE <<>>

\* correct_text_with_explanation: one analyze_text per critical error and
\* learning opportunity that has a suggestion.
RECURSIVE CorrectionReqs(_)
CorrectionReqs(errors) ==
    IF errors = <<>> THEN <<>>
    ELSE (IF Head(errors).suggestions # <<>>
          THEN << Req("correction", "Textanalyse") >> ELSE <<>>)
         \o CorrectionReqs(Tail(errors))

\* explain_grammar_topic with a generator configured.
TopicReqs(topic) ==
    << Req("explanation", topic), Req("example", topic), Req("exercise", topic) >>

\* generate_learning_session: the topics in list order (explain_grammar_topic
\* returns its error map without a request when no generator is configured),
\* then the combined exercise.
\* The topics taken from the end of the list.
RECURSIVE SessionTopicReqs_Reversed(_)
SessionTopicReqs_Reversed(topics) ==
    IF topics = <<>> THEN <<>>
    ELSE SessionTopicReqs_Reversed(Tail(topics))
         \o (IF has_leolm THEN TopicReqs(Head(topics)) ELSE <<>>)

RECURSIVE SessionTopicReqs(_)
SessionTopicReqs(topics) ==
    IF topics = <<>> THEN <<>>
    ELSE (IF has_leolm THEN TopicReqs(Head(topics)) ELSE <<>>)
         \o SessionTopicReqs(Tail(topics))

SessionReqs(topics) == SessionTopicReqs(topics) \o << Req("exercise", "Kombinierte Uebung") >>

----------------------------------------------------------------------------
(* The values the feedback operations return.                              *)

\* The map analyze_learning_text returns for the matches ms of check_text
\* and its corrected text.
LearningAnalysis(ms, fixed) ==
    [ kind |-> "learning",
      total_issues |-> Len(ms),
      n_critical |-> Len(CriticalErrors(ms)),
      n_learning |-> Len(LearningOpportunities(ms)),
      n_style |-> Len(StyleSuggestions(ms)),
      critical_errors |-> CriticalErrors(ms),
      learning_opportunities |-> LearningOpportunities(ms),
      style_suggestions |-> StyleSuggestions(ms),
      corrected_text |-> fixed,
      categories_summary |-> CategoryKeys(ms) ]

\* The boundary of Befriedigend taken one too low.
AssessTextQuality_BelowFive(error_count) ==
    IF error_count = 0 THEN "Exzellent"
    ELSE IF error_count <= 2 THEN "Gut"
    ELSE IF error_count < 5 THEN "Befriedigend"
    ELSE "Verbesserungsbeduerftig"

\* The two middle labels exchanged.
AssessTextQuality_MiddleSwapped(error_count) ==
    IF error_count = 0 THEN "Exzellent"
    ELSE IF error_count <= 2 THEN "Befriedigend"
    ELSE IF error_count <= 5 THEN "Gut"
    ELSE "Verbesserungsbeduerftig"

\* _assess_text_quality
AssessTextQuality(error_count) ==
    IF error_count = 0 THEN "Exzellent"
    ELSE IF error_count <= 2 THEN "Gut"
    ELSE IF error_count <= 5 THEN "Befriedigend"
    ELSE "Verbesserungsbeduerftig"

\* The result map of _generate_text for one prompt: success True with the
\* generated text, or success False with the error string.
GenerateText(task, ok) ==
    [ kind |-> "generation", success |-> ok, prompt_type |-> task, error |-> ~ok ]

\* The exception of a failed run raised again.
RunGeneration_Reraises(task, arg, ok) ==
    [ result |-> IF ok THEN "returned" ELSE "GenerationError",
      ext |-> << Ev("generate", task, arg, ok) >>,
      out |-> IF ok THEN GenerateText(task, ok) ELSE Nothing ]

\* _generate_text(prompt): the pipeline is run once inside try; the except
\* clause returns the failure map.
RunGeneration(task, arg, ok) ==
    [ result |-> "returned",
      ext |-> << Ev("generate", task, arg, ok) >>,
      out |-> GenerateText(task, ok) ]

\* _generate_error_explanations: every explanation is appended with its
\* error, whatever its success.
RECURSIVE ErrorExplanations(_, _)
ErrorExplanations(errors, oks) ==
    IF errors = <<>> THEN <<>>
    ELSE IF Head(errors).rule_id # ""
         THEN << [ error |-> Head(errors),
                   explanation |-> GenerateText("explanation", Head(oks)) ] >>
              \o ErrorExplanations(Tail(errors), Tail(oks))
         ELSE ErrorExplanations(Tail(errors), oks)

\* _generate_grammar_examples: the text of a successful result is added.
RECURSIVE GrammarExamples(_, _)
GrammarExamples(cats, oks) ==
    IF cats = <<>> THEN <<>>
    ELSE IF Head(cats) \in {"GRAMMAR", "CASE_AGREEMENT"}
         THEN (IF Head(oks) THEN << Head(cats) >> ELSE <<>>)
              \o GrammarExamples(Tail(cats), Tail(oks))
         ELSE GrammarExamples(Tail(cats), oks)

\* _generate_practice_exercises: a successful exercise is appended with its
\* category.
RECURSIVE PracticeExercises(_, _)
PracticeExercises(cats, oks) ==
    IF cats = <<>> THEN <<>>
    ELSE (IF Head(oks)
          THEN << [ category |-> Head(cats), exercise |-> GenerateText("exercise", TRUE) ] >>
          ELSE <<>>)
         \o PracticeExercises(Tail(cats), Tail(oks))

\* The ComprehensiveAnalysis analyze_text_comprehensive returns; oks are the
\* outcomes of the requests of ComprehensiveReqs, in the order issued.
ComprehensiveAnalysis(ms, fixed, explain, examples, exercises, oks) ==
    LET crit == Take(CriticalErrors(ms), 3)
        cats == Take(CategoryKeys(ms), 2)
        some == Len(ms) > 0
        ne   == IF some /\ explain THEN Len(ExplanationReqs(crit)) ELSE 0
        nx   == IF some /\ examples THEN Len(ExampleReqs(cats)) ELSE 0
    IN  [ kind |-> "comprehensive",
          grammar_analysis |-> LearningAnalysis(ms, fixed),
          llm_analysis |-> IF some THEN GenerateText("correction", oks[1]) ELSE Nothing,
          explanations |-> IF some /\ explain
                           THEN ErrorExplanations(crit, SubSeq(oks, 2, 1 + ne)) ELSE <<>>,
          examples |-> IF some /\ examples
                       THEN GrammarExamples(cats, SubSeq(oks, 2 + ne, 1 + ne + nx)) ELSE <<>>,
          exercises |-> IF some /\ exercises
                        THEN PracticeExercises(cats, SubSeq(oks, 2 + ne + nx, Len(oks)))
                        ELSE <<>> ]

\* The corrections of correct_text_with_explanation: one per error with a
\* suggestion, with generated_text of the result or "" when it has none.
RECURSIVE Corrections(_, _)
Corrections(errors, oks) ==
    IF errors = <<>> THEN <<>>
    ELSE IF Head(errors).suggestions # <<>>
         THEN << [ error |-> Head(errors),
                   corrected |-> Head(errors).suggestions[1],
                   llm_explanation |-> Head(oks) ] >>
              \o Corrections(Tail(errors), Tail(oks))
         ELSE Corrections(Tail(errors), oks)

\* The map correct_text_with_explanation returns.
CorrectionResult(ms, fixed, oks) ==
    LET cs == Corrections(CriticalErrors(ms) \o LearningOpportunities(ms), oks)
    IN  [ kind |-> "correction",
          corrected_text |-> fixed,
          corrections |-> cs,
          total_corrections |-> Len(cs),
          main_categories |-> CategoryKeys(ms),
          overall_quality |-> AssessTextQuality(LearningAnalysis(ms, fixed).total_issues) ]

\* The map quick_check returns.
QuickResult(ms, fixed) ==
    [ kind |-> "quick",
      has_errors |-> Len(ms) > 0,
      error_count |-> Len(ms),
      corrected_text |-> fixed,
      main_issues |-> Take(CategoryKeys(ms), 3) ]

\* status of explain_grammar_topic: all([...success...])
TopicStatus_AnySuccess(oks) ==
    IF \E i \in 1..Len(oks) : oks[i] THEN "success" ELSE "partial"

TopicStatus(oks) ==
    IF \A i \in 1..Len(oks) : oks[i] THEN "success" ELSE "partial"

\* The map explain_grammar_topic returns: the error map without a generator
\* configured, else the three results and the status.
TopicResult(topic, oks) ==
    IF ~has_leolm
    THEN [ kind |-> "topic_error", topic |-> topic ]
    ELSE [ kind |-> "topic", topic |-> topic,
           explanation |-> GenerateText("explanation", oks[1]),
           examples |-> GenerateText("example", oks[2]),
           exercise |-> GenerateText("exercise", oks[3]),
           status |-> TopicStatus(oks) ]

\* The map generate_learning_session returns.
SessionResult(topics, oks) ==
    [ kind |-> "session",
      topics |-> topics,
      content |-> [ i \in 1..Len(topics) |->
                      TopicResult(topics[i], SubSeq(oks, 3 * i - 2, 3 * i)) ],
      final_exercise |-> GenerateText("exercise", oks[Len(oks)]),
      total_topics |-> Len(topics),
      estimated_duration |-> Len(topics) * 15 ]

----------------------------------------------------------------------------
(* The assembler called on one text and one list of matches.               *)

InitAssemble ==
    /\ \/ text \in Texts /\ matches \in MatchLists
       \/ text = ScenarioText /\ matches \in ScenarioLists
    /\ corrected = <<>>
    /\ outcome = "pending"
    /\ pc = "call"
    /\ SessionInit
    /\ has_leolm = FALSE
    /\ HelperIdle
    /\ CliIdle /\ TasksIdle

\* _apply_corrections(text, matches): no statement of it raises on natural
\* offsets (slices clamp, suggestions[0] is read under the guard).
Assemble ==
    /\ pc = "call"
    /\ corrected' = ApplyCorrections(text, matches)
    /\ outcome' = "returned"
    /\ pc' = "done"
    /\ UNCHANGED <<text, matches>>
    /\ UNCHANGED <<sessionVars, helperVars, cliVars, taskVars>>

NextAssemble == Assemble

SpecAssemble == InitAssemble /\ [][NextAssemble]_vars

----------------------------------------------------------------------------
(* Two helper methods of the analyzer, each called on one argument.        *)

\* The analyzer after a successful initialize() with a generator configured:
\* the state in which analyze_text_comprehensive calls its helpers.
SessionReady ==
    /\ lt_tool = 1 /\ lt_init = TRUE /\ acquired = 1
    /\ closes = [h \in 1..MaxHandles |-> 0]
    /\ leo_tok = "loaded" /\ leo_model = "loaded" /\ leo_pipe = "loaded"
    /\ leo_init = TRUE /\ an_init = TRUE /\ has_leolm = TRUE
    /\ last = NoOp

\* grammar_analysis["analysis"] of a text with n issues, k of them critical.
IssueCounts ==
    UNION { { [ total_issues |-> n, n_critical |-> k ] : k \in 0..Min(n, 1) } :
            n \in 0..MaxIssues }

TypoSpan ==
    [ offset |-> 1, length |-> 1, category |-> "TYPOS",
      rule_id |-> "GERMAN_SPELLCHECK", suggestions |-> << <<"u">> >> ]

\* grammar_analysis["critical_errors"]
CriticalLists ==
    UNION { [1..n -> {GrammarSpan, BareSpan, TypoSpan}] : n \in 0..MaxCritical }

\* The limit taken as two.
GenerateErrorExplanations_FirstTwo(critical_errors, oks) ==
    LET errors == Take(critical_errors, 2)
        g == LeoRun(ExplanationReqs(errors), oks)
    IN  [ result |-> g.result, ext |-> g.ext,
          explanations |-> IF g.result = "returned"
                           THEN ErrorExplanations(errors, oks) ELSE <<>> ]

\* _generate_error_explanations(grammar_analysis): the requests for the
\* first three critical errors, and the list it returns.
GenerateErrorExplanations(critical_errors, oks) ==
    LET errors == Take(critical_errors, 3)
        g == LeoRun(ExplanationReqs(errors), oks)
    IN  [ result |-> g.result, ext |-> g.ext,
          explanations |-> IF g.result = "returned"
                           THEN ErrorExplanations(errors, oks) ELSE <<>> ]

InitHelpers ==
    /\ AssembleIdle
    /\ CliIdle /\ TasksIdle
    /\ SessionReady
    /\ h_pc = "call"
    /\ h_ret = <<>>
    /\ \/ /\ helper = "quality"
          /\ h_arg \in [1..2 -> IssueCounts]
       \/ /\ helper = "explanations"
          /\ \E cs \in CriticalLists :
                h_arg \in { [ critical_errors |-> cs, oks |-> oks ] :
                             oks \in [1..Len(ExplanationReqs(Take(cs, 3))) -> BOOLEAN] }

\* _assess_text_quality(grammar_analysis), for two analyses.
AssessQuality ==
    /\ h_pc = "call" /\ helper = "quality"
    /\ h_ret' = [ i \in 1..2 |-> AssessTextQuality(h_arg[i].total_issues) ]
    /\ h_pc' = "done"
    /\ UNCHANGED <<helper, h_arg, assembleVars, sessionVars, cliVars, taskVars>>

Generate_error_explanations ==
    /\ h_pc = "call" /\ helper = "explanations"
    /\ h_ret' = GenerateErrorExplanations(h_arg.critical_errors, h_arg.oks)
    /\ h_pc' = "done"
    /\ UNCHANGED <<helper, h_arg, assembleVars, sessionVars, cliVars, taskVars>>

NextHelpers == AssessQuality \/ Generate_error_explanations

SpecHelpers == InitHelpers /\ [][NextHelpers]_vars

----------------------------------------------------------------------------
(* The operations of a session: every public coroutine of the three        *)
(* classes, called in any order by the client code.                        *)

LTUnchanged  == UNCHANGED <<lt_tool, lt_init, acquired, closes>>
LeoUnchanged == UNCHANGED <<leo_tok, leo_model, leo_pipe, leo_init>>

\* Every operation is a coroutine the caller awaits: it runs to completion,
\* and the caller takes its result before it calls the next one.
Idle == last = NoOp

\* An operation that reads the session and leaves it as it is.
Reads ==
    /\ LTUnchanged /\ LeoUnchanged /\ UNCHANGED <<an_init, has_leolm, assembleVars, helperVars, cliVars, taskVars>>

\* The caller has the result of the operation it awaited.
Return ==
    /\ ~Idle
    /\ last' = NoOp
    /\ LTUnchanged /\ LeoUnchanged /\ UNCHANGED <<an_init, has_leolm, assembleVars, helperVars, cliVars, taskVars>>

LT_initialize ==
    /\ Idle
    /\ \E how \in LTHow :
           /\ LTCanInit(how)
           /\ LET a == LTAfterInit(how)
              IN  lt_tool' = a.tool /\ acquired' = a.acquired /\ lt_init' = a.init
           /\ last' = Plain("lt", "initialize", IF how = "ok" THEN "True" ELSE "False",
                            LTInitExt(how))
           /\ LeoUnchanged /\ UNCHANGED <<closes, an_init, has_leolm, assembleVars, helperVars, cliVars, taskVars>>

LT_cleanup ==
    /\ Idle
    /\ LET a == LTAfterCleanup
       IN  closes' = a.closes /\ lt_tool' = a.tool /\ lt_init' = a.init
    /\ last' = Plain("lt", "cleanup", "returned", LTCleanupExt)
    /\ LeoUnchanged /\ UNCHANGED <<acquired, an_init, has_leolm, assembleVars, helperVars, cliVars, taskVars>>

LT_check_text ==
    /\ Idle
    /\ \E raises \in Only(LTEnsureInitialized, BOOLEAN, FALSE) :
       \E raw \in Only(LTEnsureInitialized /\ ~raises, CheckerOutputs, <<>>),
          focus \in Only(LTEnsureInitialized /\ ~raises, FocusChoices, <<>>) :
           LET r == CheckText(raises, raw, focus)
           IN  /\ last' = With(Gives(Returning(Op("lt", "check_text", r.result, r.ext,
                                                  Len(r.matches), r.fixed),
                                               r.matches, Nothing),
                                     GrammarAnalysis(r.matches, r.fixed)),
                               << raw, focus >>)
               /\ Reads

\* check_sentence: check_text(sentence), then the result map.
LT_check_sentence ==
    /\ Idle
    /\ \E raises \in Only(LTEnsureInitialized, BOOLEAN, FALSE) :
       \E raw \in Only(LTEnsureInitialized /\ ~raises, CheckerOutputs, <<>>) :
           LET r == CheckText(raises, raw, <<>>)
           IN  /\ last' = Op("lt", "check_sentence", r.result, r.ext, Len(r.matches), r.fixed)
               /\ Reads

\* analyze_learning_text: check_text(text), then the three buckets.
LT_analyze_learning_text ==
    /\ Idle
    /\ \E raises \in Only(LTEnsureInitialized, BOOLEAN, FALSE) :
       \E raw \in Only(LTEnsureInitialized /\ ~raises, LearningOutputs, <<>>) :
           LET r == CheckText(raises, raw, <<>>)
           IN  /\ last' = Gives(Returning(Op("lt", "analyze_learning_text", r.result,
                                              r.ext, Len(r.matches), r.fixed),
                                           r.matches, Nothing),
                                 LearningAnalysis(r.matches, r.fixed))
               /\ Reads

\* get_grammar_explanation: the guard, then table lookups.
LT_get_grammar_explanation ==
    /\ Idle
    /\ last' = Plain("lt", "get_grammar_explanation",
                     IF LTEnsureInitialized THEN "returned" ELSE "NotInitialized", <<>>)
    /\ Reads

Leo_initialize ==
    /\ Idle
    /\ \E how \in LeoHow :
           /\ LET a == LeoAfterInit(how)
              IN  /\ leo_tok' = a.tok /\ leo_model' = a.model
                  /\ leo_pipe' = a.pipe /\ leo_init' = a.init
           /\ last' = Plain("leo", "initialize", IF how = "ok" THEN "True" ELSE "False",
                            LeoInitExt(how))
           /\ LTUnchanged /\ UNCHANGED <<an_init, has_leolm, assembleVars, helperVars, cliVars, taskVars>>

Leo_cleanup ==
    /\ Idle
    /\ LET a == LeoAfterCleanup
       IN  /\ leo_tok' = a.tok /\ leo_model' = a.model
           /\ leo_pipe' = a.pipe /\ leo_init' = a.init
           /\ last' = Plain("leo", "cleanup",
                            IF a.raised THEN "AttributeError" ELSE "returned", <<>>)
    /\ LTUnchanged /\ UNCHANGED <<an_init, has_leolm, assembleVars, helperVars, cliVars, taskVars>>

\* One of the four generation methods called on the LeoLMClient itself: the
\* guard, then _generate_text, which returns success True or False.
LeoGenerate(op, task, arg) ==
    \E ok \in Only(LeoEnsureInitialized, BOOLEAN, TRUE) :
        /\ last' = IF LeoEnsureInitialized
                   THEN LET g == RunGeneration(task, arg, ok)
                        IN  Gives(Plain("leo", op, g.result, g.ext), g.out)
                   ELSE Plain("leo", op, "NotInitialized", <<>>)
        /\ Reads

Leo_generate_explanation ==
    /\ Idle
    /\ \E topic \in Only(LeoEnsureInitialized, Topics, "Dativ") : LeoGenerate("generate_explanation", "explanation", topic)

Leo_generate_examples ==
    /\ Idle
    /\ \E topic \in Only(LeoEnsureInitialized, Topics, "Dativ") : LeoGenerate("generate_examples", "example", topic)

Leo_generate_exercise ==
    /\ Idle
    /\ \E topic \in Only(LeoEnsureInitialized, Topics, "Dativ") : LeoGenerate("generate_exercise", "exercise", topic)

Leo_analyze_text == Idle /\ LeoGenerate("analyze_text", "correction", "Textanalyse")

\* The flag set as soon as LanguageTool is initialized.
AnInitSucceeds_CheckerOnly(lh, eh) == lh = "ok"

\* initialize() reaches `self._is_initialized = True`: lt_success, and
\* leolm_success when a generator is configured.
AnInitSucceeds(lh, eh) == lh = "ok" /\ (has_leolm => eh = "ok")

\* GermanLanguageAnalyzer.initialize: LanguageTool first; LeoLM only when
\* configured and only after LanguageTool succeeded; the flag last.
An_initialize ==
    /\ Idle
    /\ \E lh \in LTHow :
          \E eh \in Only(lh = "ok" /\ has_leolm, LeoHow, "ok") :
           /\ LTCanInit(lh)
           /\ LET a == LTAfterInit(lh)
              IN  lt_tool' = a.tool /\ acquired' = a.acquired /\ lt_init' = a.init
           /\ IF lh = "ok" /\ has_leolm
              THEN LET b == LeoAfterInit(eh)
                   IN  /\ leo_tok' = b.tok /\ leo_model' = b.model
                       /\ leo_pipe' = b.pipe /\ leo_init' = b.init
              ELSE LeoUnchanged
           /\ an_init' = IF AnInitSucceeds(lh, eh) THEN TRUE ELSE an_init
           /\ last' = Plain("an", "initialize",
                            IF AnInitSucceeds(lh, eh) THEN "True" ELSE "False",
                            LTInitExt(lh)
                            \o (IF lh = "ok" /\ has_leolm THEN LeoInitExt(eh) ELSE <<>>))
           /\ UNCHANGED <<closes, has_leolm, assembleVars, helperVars, cliVars, taskVars>>

\* cleanup guarded like the feedback operations: RuntimeError unless ready.
An_cleanup_Guarded ==
    /\ Idle
    /\ IF ~an_init
       THEN /\ LTUnchanged /\ LeoUnchanged /\ UNCHANGED an_init
            /\ last' = Plain("an", "cleanup", "NotInitialized", <<>>)
       ELSE LET b == IF has_leolm THEN LeoAfterCleanup
                     ELSE [ model |-> leo_model, tok |-> leo_tok, pipe |-> leo_pipe,
                            init |-> leo_init, raised |-> FALSE ]
                a == LTAfterCleanup
            IN  /\ leo_tok' = b.tok /\ leo_model' = b.model
                /\ leo_pipe' = b.pipe /\ leo_init' = b.init
                /\ IF b.raised
                   THEN /\ LTUnchanged /\ UNCHANGED an_init
                        /\ last' = Plain("an", "cleanup", "AttributeError", <<>>)
                   ELSE /\ closes' = a.closes /\ lt_tool' = a.tool /\ lt_init' = a.init
                        /\ UNCHANGED acquired
                        /\ an_init' = FALSE
                        /\ last' = Plain("an", "cleanup", "returned", LTCleanupExt)
    /\ UNCHANGED <<has_leolm, assembleVars, helperVars, cliVars, taskVars>>

\* GermanLanguageAnalyzer.cleanup: nothing unless the flag is set; then the
\* LeoLM client (when there is one), the LanguageTool client, the flag. An
\* AttributeError of LeoLMClient.cleanup ends it there.
An_cleanup ==
    /\ Idle
    /\ IF ~an_init
       THEN /\ LTUnchanged /\ LeoUnchanged /\ UNCHANGED an_init
            /\ last' = Plain("an", "cleanup", "returned", <<>>)
       ELSE LET b == IF has_leolm THEN LeoAfterCleanup
                     ELSE [ model |-> leo_model, tok |-> leo_tok, pipe |-> leo_pipe,
                            init |-> leo_init, raised |-> FALSE ]
                a == LTAfterCleanup
            IN  /\ leo_tok' = b.tok /\ leo_model' = b.model
                /\ leo_pipe' = b.pipe /\ leo_init' = b.init
                /\ IF b.raised
                   THEN /\ LTUnchanged /\ UNCHANGED an_init
                        /\ last' = Plain("an", "cleanup", "AttributeError", <<>>)
                   ELSE /\ closes' = a.closes /\ lt_tool' = a.tool /\ lt_init' = a.init
                        /\ UNCHANGED acquired
                        /\ an_init' = FALSE
                        /\ last' = Plain("an", "cleanup", "returned", LTCleanupExt)
    /\ UNCHANGED <<has_leolm, assembleVars, helperVars, cliVars, taskVars>>

\* An analyzer operation that checks the text and then issues reqs(matches):
\* the analyzer's guard, check_text of the LanguageTool client, the requests.
AnCheckThenGenerate(op, raises, raw, reqs, oks) ==
    IF ~AnEnsureInitialized
    THEN Plain("an", op, "NotInitialized", <<>>)
    ELSE LET c == CheckText(raises, raw, <<>>)
         IN  IF c.result = "NotInitialized"
             THEN Plain("an", op, "WrappedNotInitialized", <<>>)
             ELSE IF c.result # "returned"
             THEN Plain("an", op, c.result, c.ext)
             ELSE LET g == LeoRun(reqs, oks)
                  IN  Returning(Op("an", op, g.result, c.ext \o g.ext,
                                   Len(c.matches), c.fixed),
                                c.matches, Nothing)

\* The analyzer reaches tool.check(text) behind its own guard and the
\* LanguageTool client's, and the pipeline behind the LeoLM client's.
AnChecks == AnEnsureInitialized /\ LTEnsureInitialized

AnGenerates == AnEnsureInitialized /\ has_leolm /\ LeoEnsureInitialized

Oks(reached, reqs) ==
    Only(reached, [1..Len(reqs) -> BOOLEAN], [i \in 1..Len(reqs) |-> TRUE])

An_quick_check ==
    /\ Idle
    /\ \E raises \in Only(AnChecks, BOOLEAN, FALSE) :
       \E raw \in Only(AnChecks /\ ~raises, CheckerOutputs, <<>>) :
           /\ LET o == AnCheckThenGenerate("quick_check", raises, raw, <<>>, <<>>)
              IN  last' = Gives(o, QuickResult(o.seen, o.fixed))
           /\ Reads

An_analyze_text_comprehensive ==
    /\ Idle
    /\ \E raises \in Only(AnChecks, BOOLEAN, FALSE) :
       \E raw \in Only(AnChecks /\ ~raises, CheckerOutputs, <<>>),
          explain \in Only(AnChecks /\ ~raises, BOOLEAN, TRUE),
          examples \in Only(AnChecks /\ ~raises, BOOLEAN, TRUE),
          exercises \in Only(AnChecks /\ ~raises, BOOLEAN, FALSE) :
           LET reqs == ComprehensiveReqs(Convert(raw, <<>>), explain, examples, exercises)
           IN  \E oks \in Oks(AnChecks /\ ~raises /\ AnGenerates, reqs) :
                   /\ LET o == AnCheckThenGenerate("analyze_text_comprehensive",
                                                   raises, raw, reqs, oks)
                      IN  last' = With(Gives(o, ComprehensiveAnalysis(o.seen, o.fixed, explain,
                                                                      examples, exercises, oks)),
                                       <<explain, examples, exercises>>)
                   /\ Reads

An_correct_text_with_explanation ==
    /\ Idle
    /\ \E raises \in Only(AnChecks, BOOLEAN, FALSE) :
       \E raw \in Only(AnChecks /\ ~raises, CheckerOutputs, <<>>) :
           LET ms   == Convert(raw, <<>>)
               reqs == CorrectionReqs(CriticalErrors(ms) \o LearningOpportunities(ms))
           IN  \E oks \in Oks(AnChecks /\ ~raises /\ AnGenerates, reqs) :
                   /\ LET o == AnCheckThenGenerate("correct_text_with_explanation",
                                                   raises, raw, reqs, oks)
                      IN  last' = Gives(o, CorrectionResult(o.seen, o.fixed, oks))
                   /\ Reads

\* explain_grammar_topic: the guard; without a generator configured the
\* error map; else the three requests.
ExplainTopic(topic, oks) ==
    IF ~AnEnsureInitialized
    THEN Plain("an", "explain_grammar_topic", "NotInitialized", <<>>)
    ELSE IF ~has_leolm
    THEN Gives(Plain("an", "explain_grammar_topic", "returned", <<>>),
               TopicResult(topic, oks))
    ELSE LET g == LeoRun(TopicReqs(topic), oks)
         IN  Gives(Plain("an", "explain_grammar_topic", g.result, g.ext),
                   TopicResult(topic, oks))

An_explain_grammar_topic ==
    /\ Idle
    /\ \E topic \in Only(AnGenerates, Topics, "Dativ") :
       \E oks \in Oks(AnGenerates, TopicReqs(topic)) :
           /\ last' = ExplainTopic(topic, oks)
           /\ Reads

\* generate_learning_session: the guard, then the requests of SessionReqs.
LearningSession(topics, oks) ==
    IF ~AnEnsureInitialized
    THEN Plain("an", "generate_learning_session", "NotInitialized", <<>>)
    ELSE LET g == LeoRun(SessionReqs(topics), oks)
         IN  Gives(Plain("an", "generate_learning_session", g.result, g.ext),
                   SessionResult(topics, oks))

An_generate_learning_session ==
    /\ Idle
    /\ \E topics \in Only(AnGenerates, TopicLists, <<>>) :
           \E oks \in Oks(AnGenerates, SessionReqs(topics)) :
               /\ last' = LearningSession(topics, oks)
               /\ Reads

\* get_analyzer_info: the map is built field by field; for a ready analyzer
\* get_model_info is called on leolm_client, which is None without a
\* generator configured (AttributeError), and get_tool_info on the
\* LanguageTool client; both report their client's flag.
AnalyzerInfo ==
    IF ~an_init
    THEN [ result |-> "returned",
           out |-> [ kind |-> "info", initialized |-> FALSE,
                     leolm_info |-> Nothing, languagetool_info |-> Nothing ] ]
    ELSE IF ~has_leolm
    THEN [ result |-> "AttributeError", out |-> Nothing ]
    ELSE [ result |-> "returned",
           out |-> [ kind |-> "info", initialized |-> TRUE,
                     leolm_info |-> [ kind |-> "model_info", initialized |-> leo_init ],
                     languagetool_info |-> [ kind |-> "tool_info",
                                             initialized |-> lt_init ] ] ]

An_get_analyzer_info ==
    /\ Idle
    /\ last' = Gives(Plain("an", "get_analyzer_info", AnalyzerInfo.result, <<>>),
                     AnalyzerInfo.out)
    /\ Reads

Init ==
    /\ AssembleIdle
    /\ HelperIdle
    /\ CliIdle /\ TasksIdle
    /\ SessionInit
    /\ has_leolm \in BOOLEAN

Next ==
    \/ Return
    \/ LT_initialize
    \/ LT_cleanup
    \/ LT_check_text
    \/ LT_check_sentence
    \/ LT_analyze_learning_text
    \/ LT_get_grammar_explanation
    \/ Leo_initialize
    \/ Leo_cleanup
    \/ Leo_generate_explanation
    \/ Leo_generate_examples
    \/ Leo_generate_exercise
    \/ Leo_analyze_text
    \/ An_initialize
    \/ An_cleanup
    \/ An_quick_check
    \/ An_analyze_text_comprehensive
    \/ An_correct_text_with_explanation
    \/ An_explain_grammar_topic
    \/ An_generate_learning_session
    \/ An_get_analyzer_info

Spec == Init /\ [][Next]_vars

----------------------------------------------------------------------------
(* The analyzer driven through its own methods only: the clients are       *)
(* reached through the analyzer, as in cli.py.                             *)

NextAnalyzer ==
    \/ Return
    \/ An_initialize
    \/ An_cleanup
    \/ An_quick_check
    \/ An_explain_grammar_topic
    \/ An_get_analyzer_info

SpecAnalyzer == Init /\ [][NextAnalyzer]_vars

----------------------------------------------------------------------------
(* cli.py: the global command session german_llm and the commands of       *)
(* handle_german_command. The session variables describe the analyzer      *)
(* german_llm.analyzer refers to; an analyzer that init replaced is        *)
(* dropped as it is, and the handle it holds stays counted in acquired.    *)

\* The names given to `german init`; get_config returns the default
\* configuration for a name it does not know.
ConfigNames == {"grammar-only", "fast", "default", "other"}

\* get_config(name).leolm_config is not None
ConfigHasLeolm(name) == name # "grammar-only"

\* {"error": message}
CliError(message) == [ kind |-> "cli_error", error |-> message ]

\* LeoLMClient.initialize on the client of a new analyzer.
NewLeoAfterInit(how) ==
    [ tok   |-> IF how = "tokenizer" THEN "none" ELSE "loaded",
      model |-> IF how \in {"tokenizer", "model"} THEN "none" ELSE "loaded",
      pipe  |-> IF how = "ok" THEN "loaded" ELSE "none",
      init  |-> how = "ok" ]

\* init_analyzer: self.analyzer is assigned the new analyzer, then its
\* initialize() is awaited and the value it returns is returned.
Cli_init ==
    /\ Idle
    /\ \E name \in ConfigNames, lh \in LTHow :
       \E eh \in Only(lh = "ok" /\ ConfigHasLeolm(name), LeoHow, "ok") :
           LET leolm   == ConfigHasLeolm(name)
               success == lh = "ok" /\ (leolm => eh = "ok")
               b == IF lh = "ok" /\ leolm THEN NewLeoAfterInit(eh)
                    ELSE [ tok |-> "none", model |-> "none", pipe |-> "none",
                           init |-> FALSE ]
           IN  /\ LTCanInit(lh)
               /\ cli_analyzer' = TRUE
               /\ has_leolm' = leolm
               /\ lt_tool' = IF lh = "ok" THEN acquired + 1 ELSE 0
               /\ acquired' = IF lh = "ok" THEN acquired + 1 ELSE acquired
               /\ lt_init' = (lh = "ok")
               /\ leo_tok' = b.tok /\ leo_model' = b.model
               /\ leo_pipe' = b.pipe /\ leo_init' = b.init
               /\ an_init' = success
               /\ last' = With(Gives(Plain("cli", "init", "returned",
                                           LTInitExt(lh)
                                           \o (IF lh = "ok" /\ leolm
                                               THEN LeoInitExt(eh) ELSE <<>>)),
                                     [ kind |-> "init", command |-> "init",
                                       success |-> success ]),
                                << name >>)
               /\ UNCHANGED <<closes, assembleVars, helperVars, taskVars>>

\* GermanLLMCommand.quick_check: the error map without an analyzer; else the
\* analyzer's quick_check, every exception of it turned into an error map.
CliQuickCheck(raises, raw) ==
    IF ~cli_analyzer
    THEN [ ext |-> <<>>, out |-> CliError("Not initialized") ]
    ELSE LET o == AnCheckThenGenerate("quick_check", raises, raw, <<>>, <<>>)
         IN  [ ext |-> o.ext,
               out |-> IF o.result = "returned" THEN QuickResult(o.seen, o.fixed)
                       ELSE CliError(o.result) ]

\* `german check`, with or without a text.
Cli_check ==
    /\ Idle
    /\ \E given \in BOOLEAN :
       \E raises \in Only(given /\ cli_analyzer /\ AnChecks, BOOLEAN, FALSE) :
       \E raw \in Only(given /\ cli_analyzer /\ AnChecks /\ ~raises, CheckerOutputs, <<>>) :
           LET r == IF given THEN CliQuickCheck(raises, raw)
                    ELSE [ ext |-> <<>>, out |-> CliError("No text") ]
           IN  /\ last' = With(Gives(Plain("cli", "check", "returned", r.ext), r.out),
                               << given >>)
               /\ Reads

\* GermanLLMCommand.explain_grammar: the error map without an analyzer; else
\* the analyzer's explain_grammar_topic; result["status"] is read, which the
\* map returned without a generator does not have (KeyError); every
\* exception is turned into an error map.
CliExplainGrammar(topic, oks) ==
    IF ~cli_analyzer
    THEN [ ext |-> <<>>, out |-> CliError("Not initialized") ]
    ELSE LET o == ExplainTopic(topic, oks)
         IN  [ ext |-> o.ext,
               out |-> IF o.result # "returned" THEN CliError(o.result)
                       ELSE IF o.out.kind = "topic_error" THEN CliError("KeyError")
                       ELSE o.out ]

\* `german explain`, with or without a topic.
Cli_explain ==
    /\ Idle
    /\ \E given \in BOOLEAN :
       \E topic \in Only(given /\ cli_analyzer /\ AnGenerates, Topics, "Dativ") :
       \E oks \in Oks(given /\ cli_analyzer /\ AnGenerates, TopicReqs(topic)) :
           LET r == IF given THEN CliExplainGrammar(topic, oks)
                    ELSE [ ext |-> <<>>, out |-> CliError("No topic") ]
           IN  /\ last' = With(Gives(Plain("cli", "explain", "returned", r.ext), r.out),
                               << given >>)
               /\ Reads

\* `german status`
Cli_status ==
    /\ Idle
    /\ last' = Gives(Plain("cli", "status", "returned", <<>>),
                     [ kind |-> "status", initialized |-> cli_analyzer ])
    /\ Reads

\* `german` without arguments
Cli_help ==
    /\ Idle
    /\ last' = Gives(Plain("cli", "help", "returned", <<>>),
                     [ kind |-> "help", status |-> "help" ])
    /\ Reads

\* `german` with any other first argument
Cli_unknown ==
    /\ Idle
    /\ last' = Gives(Plain("cli", "unknown", "returned", <<>>),
                     CliError("Unknown command"))
    /\ Reads

InitCli ==
    /\ AssembleIdle
    /\ HelperIdle
    /\ TasksIdle
    /\ SessionInit
    /\ has_leolm = FALSE
    /\ CliIdle

NextCli ==
    \/ Return
    \/ Cli_help
    \/ Cli_init
    \/ Cli_check
    \/ Cli_explain
    \/ Cli_status
    \/ Cli_unknown

SpecCli == InitCli /\ [][NextCli]_vars

----------------------------------------------------------------------------
(* Two coroutines in flight on one ready analyzer. A coroutine runs from   *)
(* one awaited call of the generation capability to the next; between two  *)
(* such calls the other coroutine may run. What a coroutine has computed   *)
(* so far is in its local variables.                                       *)

TaskIds == {1, 2}

\* A coroutine that was called and has not run yet. oks: the outcomes of its
\* generation requests so far; at: the position of each of them among the
\* pipeline runs of both coroutines; inp: what tool.check did for it.
Task(op, arg) ==
    [ op |-> op, arg |-> arg, pc |-> "start", oks |-> <<>>, at |-> <<>>,
      inp |-> <<>>, ext |-> <<>>, result |-> "pending", out |-> Nothing ]

StartedTasks ==
    { Task("explain_grammar_topic", topic) : topic \in Topics }
    \cup { Task("quick_check", "") }

\* A coroutine ends, raising (out is Nothing) or returning out.
Ended(task, result, out) ==
    [task EXCEPT !.pc = "done", !.result = result, !.out = out]

\* The pipeline runs made so far by all coroutines.
PipelineRuns == Len(tasks[1].at) + Len(tasks[2].at)

\* The request taken from a position kept in the analyzer, which every
\* coroutine in flight advances.
NextRequest_SharedCursor(t) ==
    LET reqs == TopicReqs(tasks[t].arg)
    IN  reqs[(PipelineRuns % Len(reqs)) + 1]

\* explain_grammar_topic issues its three requests one after the other; how
\* far it is, is local to the coroutine.
NextRequest(t) == TopicReqs(tasks[t].arg)[Len(tasks[t].oks) + 1]

\* The coroutine starts: _ensure_initialized, then, in explain_grammar_topic,
\* the test of leolm_config.
TaskBegin(t) ==
    /\ tasks[t].pc = "start"
    /\ tasks' = [tasks EXCEPT ![t] =
                   IF ~AnEnsureInitialized THEN Ended(@, "NotInitialized", Nothing)
                   ELSE IF @.op = "explain_grammar_topic" /\ ~has_leolm
                   THEN Ended(@, "returned", TopicResult(@.arg, <<>>))
                   ELSE [@ EXCEPT !.pc = "run"]]
    /\ UNCHANGED <<sessionVars, assembleVars, helperVars, cliVars>>

\* One awaited request of explain_grammar_topic: the LeoLM client's guard,
\* then the pipeline run, whose failure _generate_text returns as a result.
TaskGenerate(t) ==
    /\ tasks[t].pc = "run" /\ tasks[t].op = "explain_grammar_topic"
    /\ Len(tasks[t].oks) < Len(TopicReqs(tasks[t].arg))
    /\ \E ok \in Only(LeoEnsureInitialized, BOOLEAN, TRUE) :
           tasks' = [tasks EXCEPT ![t] =
                       IF ~LeoEnsureInitialized
                       THEN Ended(@, "WrappedNotInitialized", Nothing)
                       ELSE LET r == NextRequest(t)
                            IN  [@ EXCEPT !.oks = Append(@, ok),
                                          !.at = Append(@, PipelineRuns + 1),
                                          !.ext = Append(@, Ev("generate", r.task,
                                                               r.arg, ok))]]
    /\ UNCHANGED <<sessionVars, assembleVars, helperVars, cliVars>>

\* explain_grammar_topic returns its map after the third request.
TaskReturn(t) ==
    /\ tasks[t].pc = "run" /\ tasks[t].op = "explain_grammar_topic"
    /\ Len(tasks[t].oks) = Len(TopicReqs(tasks[t].arg))
    /\ tasks' = [tasks EXCEPT ![t] =
                   Ended(@, "returned", TopicResult(@.arg, @.oks))]
    /\ UNCHANGED <<sessionVars, assembleVars, helperVars, cliVars>>

\* quick_check: check_text, which awaits nothing that suspends, and the map.
TaskCheck(t) ==
    /\ tasks[t].pc = "run" /\ tasks[t].op = "quick_check"
    /\ \E raises \in Only(LTEnsureInitialized, BOOLEAN, FALSE) :
       \E raw \in Only(LTEnsureInitialized /\ ~raises, CheckerOutputs, <<>>) :
           LET c == CheckText(raises, raw, <<>>)
           IN  tasks' = [tasks EXCEPT ![t] =
                           Ended([@ EXCEPT !.inp = << raises, raw >>, !.ext = c.ext],
                                 IF c.result = "NotInitialized"
                                 THEN "WrappedNotInitialized" ELSE c.result,
                                 IF c.result = "returned"
                                 THEN QuickResult(c.matches, c.fixed) ELSE Nothing)]
    /\ UNCHANGED <<sessionVars, assembleVars, helperVars, cliVars>>

InitInterleave ==
    /\ AssembleIdle
    /\ HelperIdle
    /\ CliIdle
    /\ SessionReady
    /\ tasks \in [TaskIds -> StartedTasks]

NextInterleave ==
    \/ \E t \in TaskIds : TaskBegin(t)
    \/ \E t \in TaskIds : TaskGenerate(t)
    \/ \E t \in TaskIds : TaskReturn(t)
    \/ \E t \in TaskIds : TaskCheck(t)

SpecInterleave == InitInterleave /\ [][NextInterleave]_vars

----------------------------------------------------------------------------
(* The assembler's contract, stated on the original text alone.            *)

End(m) == m.offset + m.length

InBounds(t, ms) == \A i \in 1..Len(ms) : End(ms[i]) <= Len(t)

Overlap(a, b) == a.offset < End(b) /\ b.offset < End(a)

NonOverlapping(ms) ==
    \A i, j \in 1..Len(ms) : i # j => ~Overlap(ms[i], ms[j])

\* The span that starts at position p (0-based) and has a suggestion.
StartsAt(ms, p) == { i \in 1..Len(ms) : ms[i].offset = p /\ ms[i].suggestions # <<>> }

\* One left-to-right pass over the original text: a span with a suggestion
\* is replaced by its first suggestion, every other character is copied.
RECURSIVE ReplaceFrom(_, _, _)
ReplaceFrom(t, ms, p) ==
    IF p >= Len(t) THEN <<>>
    ELSE IF StartsAt(ms, p) # {}
         THEN LET m == ms[CHOOSE i \in StartsAt(ms, p) : TRUE]
              IN  m.suggestions[1] \o ReplaceFrom(t, ms, p + m.length)
         ELSE <<t[p + 1]>> \o ReplaceFrom(t, ms, p + 1)

SimultaneousReplace(t, ms) == ReplaceFrom(t, ms, 0)

Covered(ms, p) == \E i \in 1..Len(ms) : ms[i].offset <= p /\ p < End(ms[i])

\* The characters of t at the positions no span covers, in their order.
RECURSIVE UncoveredFrom(_, _, _)
UncoveredFrom(t, ms, p) ==
    IF p >= Len(t) THEN <<>>
    ELSE (IF Covered(ms, p) THEN <<>> ELSE <<t[p + 1]>>) \o UncoveredFrom(t, ms, p + 1)

Reverse(s) == [i \in 1..Len(s) |-> s[Len(s) + 1 - i]]

\* C1: for pairwise non-overlapping spans that lie within the text, the
\* assembler returns the text with every span that has a suggestion replaced
\* by its first suggestion, all at once, and everything else unchanged.
C1_SimultaneousReplacement ==
    (pc = "done" /\ InBounds(text, matches) /\ NonOverlapping(matches))
        => (outcome = "returned" /\ corrected = SimultaneousReplace(text, matches))

\* Two non-overlapping spans with suggestions of other lengths than the
\* spans, listed in ascending offset order, were assembled.
C1_Witness ==
    /\ pc = "done" /\ Len(matches) = 2
    /\ InBounds(text, matches) /\ NonOverlapping(matches)
    /\ matches[1].offset < matches[2].offset
    /\ matches[1].suggestions = << <<"y", "z">>, <<"w">> >> /\ matches[1].length = 1
    /\ matches[2].suggestions = << <<>> >>
    /\ corrected = SimultaneousReplace(text, matches)
    /\ corrected # text

\* C2 as stated: of two overlapping spans only the one processed first (the
\* higher offset; the earlier listed of two equal offsets) is substituted.
C2_OverlapSkipsLowerSpan ==
    (pc = "done" /\ Len(matches) = 2 /\ InBounds(text, matches)
        /\ Overlap(matches[1], matches[2]))
        => LET first == Head(SortedDesc(matches))
           IN  corrected = SimultaneousReplace(text, <<first>>)

\* C3 as stated: a span that ends beyond the text ends the call in an error.
C3_OutOfBoundsFailsFast ==
    (pc = "done" /\ ~InBounds(text, matches)) => outcome = "raised"

\* C4: the empty list of matches returns the text unchanged, without error.
C4_EmptyListIdentity ==
    (pc = "done" /\ matches = <<>>) => (outcome = "returned" /\ corrected = text)

C4_Witness ==
    pc = "done" /\ matches = <<>> /\ Len(text) = MaxTextLen /\ corrected = text

AllEmptySuggestion(ms) == \A i \in 1..Len(ms) : ms[i].suggestions = << <<>> >>

\* C5: when every span's first suggestion is the empty string (spans
\* non-overlapping and within the text), exactly the covered characters are
\* removed and the others keep their order.
C5_EmptySuggestionRemovesCovered ==
    (pc = "done" /\ InBounds(text, matches) /\ NonOverlapping(matches)
        /\ AllEmptySuggestion(matches))
        => corrected = UncoveredFrom(text, matches, 0)

C5_Witness ==
    /\ pc = "done" /\ Len(matches) = 2 /\ AllEmptySuggestion(matches)
    /\ InBounds(text, matches) /\ NonOverlapping(matches)
    /\ Len(corrected) = Len(text) - matches[1].length - matches[2].length
    /\ Len(corrected) > 0

\* C6: two non-overlapping spans within the text give the same result in
\* either order of the checker's list.
C6_OrderIndependent ==
    (pc = "done" /\ Len(matches) = 2 /\ InBounds(text, matches)
        /\ NonOverlapping(matches))
        => corrected = ApplyCorrections(text, Reverse(matches))

\* The two spans were listed in ascending order and both were substituted.
C6_Witness ==
    /\ pc = "done" /\ Len(matches) = 2
    /\ InBounds(text, matches) /\ NonOverlapping(matches)
    /\ matches[1].offset < matches[2].offset
    /\ HasSuggestion(matches[1]) /\ HasSuggestion(matches[2])
    /\ matches[1].suggestions # matches[2].suggestions
    /\ corrected = ApplyCorrections(text, Reverse(matches))

\* C7 as stated: the spans (8,5,GRAMMAR,["geht"]) and (16,3,CASE,["dem"])
\* turn "Der Mann gehen zu der Haus." into "Der Mann geht zu dem Haus.".
C7_ScenarioAsStated ==
    (pc = "done" /\ text = ScenarioText /\ matches = <<StatedGrammar, StatedCase>>)
        => corrected = ScenarioCorrected

\* C7 amended: the corrected sentence is the result for the spans that cover
\* the words "gehen" (9,5) and "der" (18,3); for the offsets 8 and 16 the
\* assembler returns "Der Manngehtn zdemer Haus.".
C7_ScenarioWordOffsets ==
    (pc = "done" /\ text = ScenarioText)
        => /\ matches \in {<<WordGrammar, WordCase>>, <<WordCase, WordGrammar>>}
                => corrected = ScenarioCorrected
           /\ matches \in {<<StatedGrammar, StatedCase>>, <<StatedCase, StatedGrammar>>}
                => corrected = ScenarioAsStated

C7_Witness ==
    /\ pc = "done" /\ text = ScenarioText
    /\ matches = <<WordGrammar, WordCase>>
    /\ corrected = ScenarioCorrected

----------------------------------------------------------------------------
(* The session lifecycle.                                                  *)

FeedbackOps ==
    { "check_text", "check_sentence", "analyze_learning_text", "get_grammar_explanation",
      "generate_explanation", "generate_examples", "generate_exercise", "analyze_text",
      "quick_check", "analyze_text_comprehensive", "explain_grammar_topic",
      "correct_text_with_explanation", "generate_learning_session" }

\* The lifecycle state of a component is ready when its flag is set: a
\* successful initialize() sets it, cleanup() clears it.
StateReady(c) ==
    CASE c = "lt"  -> lt_init
      [] c = "leo" -> leo_init
      [] c = "an"  -> an_init
      [] OTHER     -> FALSE

Components == {"lt", "leo", "an"}

Held == <<lt_tool, lt_init, acquired, closes, leo_tok, leo_model, leo_pipe, leo_init, an_init>>

\* C8: a feedback or generation operation called on a component that is not
\* ready ends with the component's own 'not initialized' error, has made no
\* call to the checker or the model, and has acquired and changed nothing.
C8_NotReadyFailsImmediately ==
    [][ \A c \in Components :
            (last'.op \in FeedbackOps /\ last'.comp = c /\ ~StateReady(c))
                => (/\ last'.result = "NotInitialized"
                    /\ last'.ext = <<>>
                    /\ UNCHANGED Held) ]_vars

\* A generation method was refused on a LeoLM client that had been cleaned
\* up, and an analysis on an analyzer whose initialize() had failed.
C8_Witness ==
    \/ /\ last.comp = "leo" /\ last.op = "generate_explanation"
       /\ last.result = "NotInitialized" /\ leo_model = "deleted"
    \/ /\ last.comp = "an" /\ last.op = "analyze_text_comprehensive"
       /\ last.result = "NotInitialized" /\ lt_init /\ has_leolm /\ leo_tok = "loaded"

Acquisitions == {"LanguageTool", "tokenizer", "model", "pipeline"}

AcquisitionFailed(ext) ==
    \E i \in 1..Len(ext) : ext[i].call \in Acquisitions /\ ~ext[i].ok

\* The failed acquisition is the last call made, and no acquisition was
\* attempted a second time.
SingleAttempt(ext) ==
    /\ Len(ext) >= 1
    /\ ~ext[Len(ext)].ok
    /\ \A i \in 1..Len(ext) - 1 : ext[i].ok
    /\ \A i, j \in 1..Len(ext) : i # j => ext[i].call # ext[j].call

\* The acquisitions of component c among the calls ext all succeeded.
AcquiredBy(c, ext) ==
    LET needs == IF c = "lt" THEN {"LanguageTool"}
                 ELSE IF c = "leo" THEN {"tokenizer", "model", "pipeline"}
                 ELSE {"LanguageTool"} \cup (IF has_leolm THEN {"tokenizer", "model", "pipeline"} ELSE {})
    IN  \A n \in needs : \E i \in 1..Len(ext) : ext[i].call = n /\ ext[i].ok

\* C9: when an acquisition fails in initialize() called on a component that
\* is not ready, initialize() returns False, the component is still not
\* ready, the failed acquisition was attempted once and nothing was retried;
\* and a component that is not ready becomes ready only in an initialize()
\* (its own, or the analyzer's for a wrapped client) whose acquisitions for it
\* all succeeded.
C9_FailedInitializeStaysUninitialized ==
    [][ \A c \in Components :
        /\ (last'.op = "initialize" /\ last'.comp = c /\ ~StateReady(c)
                /\ AcquisitionFailed(last'.ext))
            => (/\ last'.result = "False"
                /\ ~StateReady(c)'
                /\ SingleAttempt(last'.ext))
        /\ (~StateReady(c) /\ StateReady(c)')
                => (/\ last'.op = "initialize"
                    /\ last'.comp \in {c, "an"}
                    /\ last'.comp = c => last'.result = "True"
                    /\ AcquiredBy(c, last'.ext)) ]_vars

\* The analyzer's initialize() failed at the model load, after the checker
\* and the tokenizer were acquired.
C9_Witness ==
    /\ last.comp = "an" /\ last.op = "initialize" /\ last.result = "False"
    /\ ~an_init /\ ~leo_init
    /\ Len(last.ext) = 3 /\ last.ext[3].call = "model" /\ ~last.ext[3].ok

\* C10 as stated: no checker handle is closed twice, and after a cleanup()
\* of the LanguageTool client every handle acquired so far has been closed.
C10_EveryHandleReleasedOnce ==
    /\ \A h \in 1..MaxHandles : closes[h] <= 1
    /\ (last.comp = "lt" /\ last.op = "cleanup")
            => \A h \in 1..acquired : closes[h] = 1

----------------------------------------------------------------------------
(* cleanup() called again.                                                 *)

\* Component c has been cleaned up after a successful initialize(): what it
\* acquired is given up and its flag is cleared.
Closed(c) ==
    CASE c = "lt"  -> ~lt_init /\ lt_tool = 0 /\ acquired > 0
      [] c = "leo" -> /\ ~leo_init
                      /\ leo_tok = "deleted" /\ leo_model = "deleted" /\ leo_pipe = "deleted"
      [] c = "an"  -> /\ ~an_init
                      /\ ~lt_init /\ lt_tool = 0 /\ acquired > 0
                      /\ has_leolm => (~leo_init /\ leo_model = "deleted")
      [] OTHER     -> FALSE

\* C11: cleanup() on a component that has already been cleaned up after a
\* successful initialize() returns without error, releases nothing and
\* leaves every field as the first cleanup() left it.
C11_CleanupIdempotent ==
    [][ \A c \in Components :
            (last'.op = "cleanup" /\ last'.comp = c /\ Closed(c))
                => (/\ last'.result = "returned"
                    /\ last'.ext = <<>>
                    /\ UNCHANGED Held) ]_vars

----------------------------------------------------------------------------
(* Feedback without a generator.                                           *)

GrammarFeedbackOps == {"analyze_text_comprehensive", "correct_text_with_explanation"}

Generated(ext) == \E i \in 1..Len(ext) : ext[i].call = "generate"

\* C12: with no generator configured and at least one span reported by the
\* checker, analyze_text_comprehensive and correct_text_with_explanation
\* return their result (counts, spans, corrected text) without raising and
\* without a generation request.
C12_NoGeneratorStillReturns ==
    (/\ last.comp = "an" /\ last.op \in GrammarFeedbackOps
     /\ ~has_leolm
     /\ last.seen # <<>>)
        => (/\ last.result = "returned"
            /\ last.out # Nothing
            /\ last.fixed = ApplyCorrections(CheckedText, last.seen)
            /\ ~Generated(last.ext))

----------------------------------------------------------------------------
(* The three buckets of analyze_learning_text.                             *)

BucketOf(category) ==
    IF category \in {"TYPOS", "GRAMMAR"} THEN "critical"
    ELSE IF category \in {"STYLE", "REDUNDANCY"} THEN "style"
    ELSE "other"

Count(seq, x) == Cardinality({ i \in 1..Len(seq) : seq[i] = x })

\* a is b with some elements left out, the others in the order of b.
RECURSIVE IsSubseq(_, _)
IsSubseq(a, b) ==
    IF a = <<>> THEN TRUE
    ELSE IF b = <<>> THEN FALSE
    ELSE \/ Head(a) = Head(b) /\ IsSubseq(Tail(a), Tail(b))
         \/ IsSubseq(a, Tail(b))

BucketIn(o, name) ==
    CASE name = "critical" -> o.critical_errors
      [] name = "style"    -> o.style_suggestions
      [] OTHER             -> o.learning_opportunities

BucketNames == {"critical", "style", "other"}

\* C13: analyze_learning_text puts every span the checker reported in the
\* bucket of its category and in no other (as often as the checker reported
\* it), keeps the checker's order within each bucket, and reports counts
\* that are the bucket sizes and sum to total_issues.
C13_BucketsPartitionSpans ==
    (last.comp = "lt" /\ last.op = "analyze_learning_text" /\ last.result = "returned")
        => LET o == last.out
               ms == last.seen
           IN  /\ \A i \in 1..Len(ms) : \A b \in BucketNames :
                       Count(BucketIn(o, b), ms[i])
                           = IF b = BucketOf(ms[i].category) THEN Count(ms, ms[i]) ELSE 0
               /\ \A b \in BucketNames : IsSubseq(BucketIn(o, b), ms)
               /\ o.n_critical = Len(o.critical_errors)
               /\ o.n_style = Len(o.style_suggestions)
               /\ o.n_learning = Len(o.learning_opportunities)
               /\ o.n_critical + o.n_style + o.n_learning = o.total_issues
               /\ o.total_issues = Len(ms)

\* Spans of an unknown category and of REDUNDANCY have been bucketed.
C13_Witness ==
    /\ last.comp = "lt" /\ last.op = "analyze_learning_text" /\ last.result = "returned"
    /\ Len(last.seen) = 2
    /\ last.seen[1].category = "SEMANTICS" /\ last.seen[2].category = "REDUNDANCY"
    /\ last.out.n_learning = 1 /\ last.out.n_style = 1

----------------------------------------------------------------------------
(* The quality label.                                                      *)

LabelFor(c) ==
    CASE c = 0      -> "Exzellent"
      [] c \in 1..2 -> "Gut"
      [] c \in 3..5 -> "Befriedigend"
      [] OTHER      -> "Verbesserungsbeduerftig"

QualityDone == h_pc = "done" /\ helper = "quality"

\* C14: the label _assess_text_quality returns is Exzellent for 0 issues,
\* Gut for 1 or 2, Befriedigend for 3 to 5 and Verbesserungsbeduerftig above
\* 5, and two analyses with the same total get the same label whatever else
\* they hold.
C14_LabelByThresholds ==
    QualityDone
        => /\ \A i \in 1..2 : h_ret[i] = LabelFor(h_arg[i].total_issues)
           /\ h_arg[1].total_issues = h_arg[2].total_issues => h_ret[1] = h_ret[2]

\* Two analyses with the same total above 5 that differ otherwise.
C14_Witness ==
    /\ QualityDone
    /\ h_arg[1].total_issues = 6 /\ h_arg[2].total_issues = 6
    /\ h_arg[1].n_critical # h_arg[2].n_critical
    /\ h_ret[1] = "Verbesserungsbeduerftig"

Rank(label) ==
    CASE label = "Exzellent"    -> 0
      [] label = "Gut"          -> 1
      [] label = "Befriedigend" -> 2
      [] OTHER                  -> 3

\* C15: of two issue counts, the smaller never gets the worse label.
C15_SeverityMonotone ==
    (QualityDone /\ h_arg[1].total_issues < h_arg[2].total_issues)
        => Rank(h_ret[1]) <= Rank(h_ret[2])

\* The counts on the two sides of a threshold.
C15_Witness ==
    /\ QualityDone
    /\ h_arg[1].total_issues = 5 /\ h_arg[2].total_issues = 6
    /\ Rank(h_ret[1]) < Rank(h_ret[2])

----------------------------------------------------------------------------
(* A text without issues.                                                  *)

EmptyFeedbackOps ==
    {"analyze_learning_text", "analyze_text_comprehensive", "correct_text_with_explanation"}

\* tool.check(text) was called and returned.
Checked(ext) == ext # <<>> /\ ext[1].call = "check" /\ ext[1].ok

ZeroCounts(a) ==
    /\ a.total_issues = 0
    /\ a.n_critical = 0 /\ a.n_style = 0 /\ a.n_learning = 0
    /\ a.critical_errors = <<>> /\ a.style_suggestions = <<>>
    /\ a.learning_opportunities = <<>>

\* C16: when the checker returns no span, the operation returns, no
\* generation request is issued, the corrected text is the input text, the
\* three counts are zero and the quality label is Exzellent, each in the
\* operation whose result carries it: the counts in analyze_learning_text
\* and in grammar_analysis of analyze_text_comprehensive, the label in
\* correct_text_with_explanation; with and without a generator configured.
C16_NoSpansNoChanges ==
    (last.op \in EmptyFeedbackOps /\ Checked(last.ext) /\ last.seen = <<>>)
        => /\ last.result = "returned"
           /\ ~Generated(last.ext)
           /\ last.fixed = CheckedText
           /\ last.op = "analyze_learning_text"
                  => (last.out.corrected_text = CheckedText /\ ZeroCounts(last.out))
           /\ last.op = "analyze_text_comprehensive"
                  => /\ last.out.grammar_analysis.corrected_text = CheckedText
                     /\ ZeroCounts(last.out.grammar_analysis)
                     /\ last.out.llm_analysis = Nothing
                     /\ last.out.explanations = <<>>
                     /\ last.out.examples = <<>>
                     /\ last.out.exercises = <<>>
           /\ last.op = "correct_text_with_explanation"
                  => /\ last.out.corrected_text = CheckedText
                     /\ last.out.corrections = <<>>
                     /\ last.out.overall_quality = "Exzellent"

C16_Witness ==
    /\ last.op = "analyze_text_comprehensive" /\ Checked(last.ext) /\ last.seen = <<>>
    /\ has_leolm /\ leo_init
    /\ last.out.grammar_analysis.total_issues = 0

----------------------------------------------------------------------------
(* Explanations of the critical errors.                                    *)

ExplanationsDone == h_pc = "done" /\ helper = "explanations"

\* The requests ext and the returned list exps are, entry by entry, those of
\* the spans of todo: one explanation request per span, its result attached
\* to that span.
OnePerSpan(todo, ext, exps) ==
    /\ Len(ext) = Len(todo)
    /\ Len(exps) = Len(todo)
    /\ \A i \in 1..Len(todo) :
           /\ ext[i].call = "generate" /\ ext[i].task = "explanation"
           /\ ext[i].arg = CategoryGerman(todo[i].category)
           /\ exps[i].error = todo[i]
           /\ exps[i].explanation.success = ext[i].ok

\* C17 as stated: one request for each of the first min(3, n) critical
\* spans, in span order, and a returned list of that length whose i-th
\* entry carries the i-th critical span and the result of its request.
C17_OnePerCriticalSpan ==
    ExplanationsDone
        => /\ h_ret.result = "returned"
           /\ OnePerSpan(Take(h_arg.critical_errors, 3), h_ret.ext, h_ret.explanations)

HasRuleId(m) == m.rule_id # ""

\* C17: one request for each of the first min(3, n) critical spans that has
\* a rule id, in span order, and a returned list with one entry per request
\* carrying that span and the result of its request; nothing for a span
\* without rule id, for the fourth or a later critical span.
C17_OnePerCriticalSpanWithRule ==
    ExplanationsDone
        => /\ h_ret.result = "returned"
           /\ OnePerSpan(SelectSeq(Take(h_arg.critical_errors, 3), HasRuleId),
                         h_ret.ext, h_ret.explanations)

\* Four critical spans, the second without rule id, a failed first request.
C17_Witness ==
    /\ ExplanationsDone
    /\ Len(h_arg.critical_errors) = 4
    /\ h_arg.critical_errors[1] = TypoSpan /\ h_arg.critical_errors[2] = BareSpan
    /\ h_arg.critical_errors[3] = GrammarSpan /\ h_arg.critical_errors[4] = GrammarSpan
    /\ Len(h_ret.ext) = 2 /\ ~h_ret.ext[1].ok /\ h_ret.ext[2].ok
    /\ h_ret.explanations[2].error = GrammarSpan

----------------------------------------------------------------------------
(* Failed generation.                                                      *)

GenerationOps ==
    {"generate_explanation", "generate_examples", "generate_exercise", "analyze_text"}

GenerationFailed(ext) == \E i \in 1..Len(ext) : ext[i].call = "generate" /\ ~ext[i].ok

\* C18: when the run of the pipeline fails in one of the four generation
\* methods of a ready LeoLMClient, the method returns a result with success
\* False and an error string, raises nothing, and the client is ready as
\* before, with all it holds.
C18_GenerationFailureReturned ==
    [][ (last'.comp = "leo" /\ last'.op \in GenerationOps /\ GenerationFailed(last'.ext))
            => (/\ leo_init
                /\ last'.result = "returned"
                /\ last'.out.kind = "generation"
                /\ ~last'.out.success
                /\ last'.out.error
                /\ leo_init'
                /\ UNCHANGED Held) ]_vars

C18_Witness ==
    /\ last.comp = "leo" /\ last.op = "generate_exercise"
    /\ GenerationFailed(last.ext)
    /\ last.result = "returned" /\ ~last.out.success
    /\ leo_init

----------------------------------------------------------------------------
(* Aggregate results with failed generation steps.                         *)

TopicDone == last.comp = "an" /\ last.op = "explain_grammar_topic"

\* C19: in explain_grammar_topic with a generator, whichever of the three
\* steps fail, the three requests (explanation, examples, exercise) are
\* issued in this order for the topic, the result is returned with the
\* three results, and its status is success when all three succeeded and
\* partial otherwise.
C19_TopicStepsAllIssued ==
    (TopicDone /\ Generated(last.ext))
        => /\ last.result = "returned"
           /\ Len(last.ext) = 3
           /\ last.out.kind = "topic"
           /\ \A i \in 1..3 : last.ext[i].call = "generate" /\ last.ext[i].arg = last.out.topic
           /\ last.ext[1].task = "explanation" /\ last.out.explanation.success = last.ext[1].ok
           /\ last.ext[2].task = "example" /\ last.out.examples.success = last.ext[2].ok
           /\ last.ext[3].task = "exercise" /\ last.out.exercise.success = last.ext[3].ok
           /\ last.out.status = IF \A i \in 1..3 : last.ext[i].ok THEN "success" ELSE "partial"

\* The first step failed, the two others were issued and succeeded.
C19_Witness ==
    /\ TopicDone /\ Len(last.ext) = 3
    /\ ~last.ext[1].ok /\ last.ext[2].ok /\ last.ext[3].ok
    /\ last.out.status = "partial"

ComprehensiveDone == last.comp = "an" /\ last.op = "analyze_text_comprehensive"

IsGenerate(ev) == ev.call = "generate"

Requests(ext) == SelectSeq(ext, IsGenerate)

IsExplanation(ev) == ev.task = "explanation"
IsExample(ev) == ev.task = "example"
IsExercise(ev) == ev.task = "exercise"
Succeeded(ev) == ev.ok

\* Every request the analysis of the matches calls for has been issued, in
\* order, whether or not an earlier one failed.
AllIssued(o) ==
    LET reqs == ComprehensiveReqs(o.seen, o.args[1], o.args[2], o.args[3])
        gen == Requests(o.ext)
    IN  /\ Len(gen) = Len(reqs)
        /\ \A i \in 1..Len(reqs) : gen[i].task = reqs[i].task /\ gen[i].arg = reqs[i].arg

\* The examples and exercises are those of the successful requests.
FailedLeftOut(o) ==
    LET gen == Requests(o.ext)
    IN  /\ Len(o.out.examples) = Len(SelectSeq(SelectSeq(gen, IsExample), Succeeded))
        /\ Len(o.out.exercises) = Len(SelectSeq(SelectSeq(gen, IsExercise), Succeeded))
        /\ \A i \in 1..Len(o.out.exercises) : o.out.exercises[i].exercise.success

\* C20 as stated: when a request of analyze_text_comprehensive fails, the
\* analysis is returned, every later request is issued, and explanations,
\* examples and exercises hold only results of successful requests.
C20_FailedContentOmitted ==
    (ComprehensiveDone /\ GenerationFailed(last.ext))
        => /\ last.result = "returned"
           /\ AllIssued(last)
           /\ FailedLeftOut(last)
           /\ Len(last.out.explanations)
                  = Len(SelectSeq(SelectSeq(Requests(last.ext), IsExplanation), Succeeded))
           /\ \A i \in 1..Len(last.out.explanations) :
                  last.out.explanations[i].explanation.success

\* C20: when a request of analyze_text_comprehensive fails, the analysis
\* is returned, every later request is issued, examples and exercises hold
\* only results of successful requests, and explanations holds one entry
\* per explanation request, a failed one with success False.
C20_FailedExplanationKept ==
    (ComprehensiveDone /\ GenerationFailed(last.ext))
        => /\ last.result = "returned"
           /\ AllIssued(last)
           /\ FailedLeftOut(last)
           /\ LET asked == SelectSeq(Requests(last.ext), IsExplanation)
              IN  /\ Len(last.out.explanations) = Len(asked)
                  /\ \A i \in 1..Len(asked) :
                         last.out.explanations[i].explanation.success = asked[i].ok

\* A failed explanation, then a failed example and a failed exercise.
C20_Witness ==
    /\ ComprehensiveDone /\ last.result = "returned"
    /\ last.args = <<TRUE, TRUE, TRUE>>
    /\ Len(Requests(last.ext)) = 4
    /\ \A i \in 2..4 : ~Requests(last.ext)[i].ok
    /\ Len(last.out.explanations) = 1
    /\ last.out.examples = <<>> /\ last.out.exercises = <<>>

----------------------------------------------------------------------------
(* The order of the requests of a learning session.                        *)

SessionDone == last.comp = "an" /\ last.op = "generate_learning_session"

TopicTasks == << "explanation", "example", "exercise" >>

\* C21: generate_learning_session issues the three requests of topic i, one
\* after the other, before any request of topic i+1, in the order of the
\* topic list, then the request of the combined exercise; the content it
\* returns has one entry per topic, content[i] being the results of the
\* requests of topics[i].
C21_TopicsInListOrder ==
    (SessionDone /\ Generated(last.ext))
        => LET topics == last.out.topics
               n == Len(topics)
           IN  /\ last.result = "returned"
               /\ Len(last.ext) = 3 * n + 1
               /\ \A i \in 1..n : \A k \in 1..3 :
                      /\ last.ext[3 * (i - 1) + k].call = "generate"
                      /\ last.ext[3 * (i - 1) + k].arg = topics[i]
                      /\ last.ext[3 * (i - 1) + k].task = TopicTasks[k]
               /\ last.ext[3 * n + 1].task = "exercise"
               /\ last.ext[3 * n + 1].arg = "Kombinierte Uebung"
               /\ Len(last.out.content) = n
               /\ last.out.total_topics = n
               /\ \A i \in 1..n :
                      /\ last.out.content[i].topic = topics[i]
                      /\ last.out.content[i].explanation.success = last.ext[3 * i - 2].ok
                      /\ last.out.content[i].examples.success = last.ext[3 * i - 1].ok
                      /\ last.out.content[i].exercise.success = last.ext[3 * i].ok
               /\ last.out.final_exercise.success = last.ext[3 * n + 1].ok

\* Two different topics, a failed request in the first.
C21_Witness ==
    /\ SessionDone /\ last.result = "returned"
    /\ last.out.topics = << "Perfekt", "Dativ" >>
    /\ Len(last.ext) = 7
    /\ ~last.ext[2].ok /\ last.ext[4].ok
    /\ last.out.content[2].topic = "Dativ"

----------------------------------------------------------------------------
(* The command session after a failed init.                                *)

\* The last `german init` returned success False: an analyzer is assigned
\* (every init assigns one) and it is not ready (no command cleans it up).
InitFailed == cli_analyzer /\ ~an_init

CliDone(op) == last.comp = "cli" /\ last.op = op

NotInitializedErrors == { CliError("Not initialized"), CliError("NotInitialized") }

\* C22: after a failed init and until an init succeeds, the status command
\* reports initialized false, and check and explain (given a text, a topic)
\* report the not-initialized error.
C22_FailedInitReportsNotReady ==
    InitFailed
        => /\ CliDone("status") => last.out.initialized = FALSE
           /\ (CliDone("check") /\ last.args = << TRUE >>)
                  => last.out \in NotInitializedErrors
           /\ (CliDone("explain") /\ last.args = << TRUE >>)
                  => last.out \in NotInitializedErrors

----------------------------------------------------------------------------
(* An exception of the checker.                                            *)

CheckingOps ==
    { << "lt", "check_text" >>, << "an", "quick_check" >>,
      << "an", "analyze_text_comprehensive" >>,
      << "an", "correct_text_with_explanation" >> }

\* tool.check(text) was called and raised.
CheckerRaised(ext) == \E i \in 1..Len(ext) : ext[i].call = "check" /\ ~ext[i].ok

\* C23: when the checker raises during check_text, quick_check,
\* analyze_text_comprehensive or correct_text_with_explanation, the operation
\* ends with that exception: it returns no value, makes no call after the
\* failed one, and the session, ready before, is as it was.
C23_CheckerErrorPropagates ==
    [][ (<< last'.comp, last'.op >> \in CheckingOps /\ CheckerRaised(last'.ext))
            => /\ last'.result = "CheckerError"
               /\ last'.out = Nothing
               /\ last'.seen = <<>>
               /\ last'.ext = << Ev("check", "", "", FALSE) >>
               /\ LTEnsureInitialized
               /\ last'.comp = "an" => AnEnsureInitialized
               /\ UNCHANGED << lt_tool, lt_init, acquired, closes, leo_tok, leo_model,
                               leo_pipe, leo_init, an_init, has_leolm >> ]_vars

C23_Witness ==
    /\ last.comp = "an" /\ last.op = "correct_text_with_explanation"
    /\ last.result = "CheckerError"
    /\ CheckerRaised(last.ext)
    /\ an_init /\ has_leolm /\ leo_init /\ LTEnsureInitialized

----------------------------------------------------------------------------
(* get_analyzer_info in every state of the analyzer.                       *)

InfoDone == last.comp = "an" /\ last.op = "get_analyzer_info"

\* C24: get_analyzer_info returns a map and raises nothing, whatever the
\* state of the analyzer and whether or not a generator is configured, and
\* the map's initialized field is the analyzer's readiness.
C24_InfoNeverRaises ==
    InfoDone => /\ last.result = "returned"
                /\ last.out.kind = "info"
                /\ last.out.initialized = an_init

----------------------------------------------------------------------------
(* cleanup() of an analyzer that was never initialized.                    *)

\* The analyzer and its two clients as their constructors leave them, no
\* handle acquired.
Constructed ==
    /\ ~an_init /\ ~lt_init /\ lt_tool = 0 /\ acquired = 0
    /\ ~leo_init /\ leo_tok = "none" /\ leo_model = "none" /\ leo_pipe = "none"

AllSucceeded(ext) == \A i \in 1..Len(ext) : ext[i].ok

\* C25: cleanup() on an analyzer that was never initialized returns without
\* error, makes no call to the libraries, closes nothing and leaves the
\* analyzer and both clients as constructed; initialize() on an analyzer in
\* that state, when its acquisitions succeed, returns True and makes it ready.
C25_CleanupBeforeInitialize ==
    [][ /\ (Constructed /\ last'.comp = "an" /\ last'.op = "cleanup")
            => /\ last'.result = "returned"
               /\ last'.ext = <<>>
               /\ closes' = closes
               /\ (Constructed)'
        /\ (Constructed /\ last'.comp = "an" /\ last'.op = "initialize"
              /\ AllSucceeded(last'.ext))
            => /\ last'.result = "True"
               /\ an_init' /\ lt_init' /\ lt_tool' # 0
               /\ has_leolm => leo_init' ]_vars

C25_Witness ==
    /\ last.comp = "an" /\ last.op = "cleanup" /\ last.result = "returned"
    /\ Constructed /\ has_leolm

----------------------------------------------------------------------------
(* The help and status commands.                                           *)

\* C26: the command without arguments returns a map whose status is
\* "help_shown", and the status command returns a map, raising nothing, in
\* every state of the command session.
C26_HelpShownAndStatus ==
    /\ CliDone("help") => (last.result = "returned" /\ last.out.status = "help_shown")
    /\ CliDone("status") => (last.result = "returned" /\ last.out.kind = "status")

----------------------------------------------------------------------------
(* Two operations interleaved on one analyzer.                             *)

\* What the operation of a coroutine gives when it runs alone, from its call
\* to its return, on the same inputs.
RunAlone(task) ==
    IF task.op = "explain_grammar_topic"
    THEN ExplainTopic(task.arg, task.oks)
    ELSE LET o == AnCheckThenGenerate("quick_check", task.inp[1], task.inp[2],
                                      <<>>, <<>>)
         IN  Gives(o, QuickResult(o.seen, o.fixed))

\* C27: each of two operations interleaved on one ready analyzer ends as it
\* does when it runs alone (same calls, same result), whatever the other one
\* does in between, and the analyzer stays as it was.
C27_InterleavedAsAlone ==
    /\ \A t \in TaskIds :
           tasks[t].pc = "done"
               => LET o == RunAlone(tasks[t])
                  IN  /\ tasks[t].result = o.result
                      /\ tasks[t].ext = o.ext
                      /\ tasks[t].out = o.out
    /\ SessionReady

C27_Witness ==
    /\ \A t \in TaskIds : tasks[t].pc = "done" /\ tasks[t].op = "explain_grammar_topic"
    /\ tasks[1].arg = "Dativ" /\ tasks[2].arg = "Perfekt"
    /\ tasks[1].at = << 1, 3, 5 >> /\ tasks[2].at = << 2, 4, 6 >>
    /\ tasks[1].oks = << TRUE, FALSE, TRUE >> /\ tasks[2].oks = << FALSE, TRUE, TRUE >>

----------------------------------------------------------------------------
(* The analyzer's own lifecycle.                                           *)

AnDone(op) == last.comp = "an" /\ last.op = op

\* C28: when cleanup() of the analyzer has returned, every handle acquired
\* so far has been closed.
C28_CleanupReleasesEveryHandle ==
    (AnDone("cleanup") /\ last.result = "returned")
        => \A h \in 1..acquired : closes[h] >= 1

\* C29: a ready analyzer has a ready LanguageTool client that holds a handle
\* and, when a generator is configured, a ready LeoLM client.
C29_ReadyImpliesClientsReady ==
    an_init => /\ lt_init /\ lt_tool # 0
               /\ has_leolm => leo_init

\* Ready on the second handle, initialize() having just returned True.
C29_Witness ==
    /\ an_init /\ has_leolm /\ acquired = 2 /\ lt_tool = 2
    /\ AnDone("initialize") /\ last.result = "True"

----------------------------------------------------------------------------
(* The GrammarAnalysis of check_text.                                      *)

\* The spans of raw that a focus list keeps (all of them for None or []).
Kept(raw, focus) ==
    LET InFocus(m) == focus = <<>> \/ InSeq(m.category, focus)
    IN  SelectSeq(raw, InFocus)

\* Where a span is and what it is.
Core(m) == << m.offset, m.length, m.category, m.rule_id >>

Cores(ms) == [ i \in 1..Len(ms) |-> Core(ms[i]) ]

RECURSIVE SumCounts(_)
SumCounts(found) ==
    IF found = <<>> THEN 0 ELSE Head(found).count + SumCounts(Tail(found))

CategoriesOf(ms) == { ms[i].category : i \in 1..Len(ms) }

\* C30: the GrammarAnalysis check_text returns has the input text, the
\* checker's spans in checker order (those of the focus categories when a
\* focus list is given), their number as total_errors and, in
\* categories_found, one entry per category among them with the number of
\* them, the counts adding up to total_errors; the call leaves the lifecycle
\* state of the session as it was.
C30_GrammarAnalysisConsistent ==
    [][ (last'.comp = "lt" /\ last'.op = "check_text" /\ last'.result = "returned")
            => LET raw   == last'.args[1]
                   focus == last'.args[2]
                   g     == last'.out
                   found == g.categories_found
               IN  /\ g.kind = "grammar"
                   /\ g.text = CheckedText
                   /\ Cores(g.matches) = Cores(Kept(raw, focus))
                   /\ g.total_errors = Len(g.matches)
                   /\ { found[i].category : i \in 1..Len(found) } = CategoriesOf(g.matches)
                   /\ \A i \in 1..Len(found) :
                          /\ found[i].count
                               = Cardinality({ k \in 1..Len(g.matches) :
                                                 g.matches[k].category = found[i].category })
                          /\ \A j \in 1..Len(found) :
                                 found[j].category = found[i].category => j = i
                   /\ SumCounts(found) = g.total_errors
                   /\ UNCHANGED << lt_tool, lt_init, acquired, closes, leo_tok,
                                   leo_model, leo_pipe, leo_init, an_init, has_leolm >> ]_vars

C30_Witness ==
    /\ last.comp = "lt" /\ last.op = "check_text" /\ last.result = "returned"
    /\ last.args = << << StyleSpan, GrammarSpan >>, <<"GRAMMAR">> >>
    /\ last.out.total_errors = 1
    /\ last.out.categories_found = << [ category |-> "GRAMMAR", count |-> 1 ] >>

====
